---- MODULE Spec2Model ----
(***************************************************************************)
(* Model of sakib.py: the per-user pending-input maps, the link counting   *)
(* and channel-join gate of universal_message_enforcement, the moderation  *)
(* check, and the FileAutoRemovalManager timer table.                      *)
(*                                                                         *)
(* The specifications share the variables:                                 *)
(*   Spec       message and callback handlers, each handler one step       *)
(*   SpecAdmin  the pending-input flows of the admin panel                 *)
(*   SpecSched  schedule_file_removal / cancel_file_removal / timer threads*)
(*              interleaved at the granularity of the lock regions         *)
(*   SpecCalc   calculate_removal_time                                     *)
(*   SpecStore  UserDataManager.save_data step by step, with crashes       *)
(*   SpecRace   add_user / log_link on two worker threads                  *)
(*   SpecGate   admin_panel_request / handle_admin_pin_entry, statement by *)
(*              statement on two worker threads                            *)
(*   SpecVerify handle_channel_join_verification over every member status  *)
(*   SpecExpiry schedule_message_deletion and schedule_file_removal with   *)
(*              their enabled flags                                        *)
(*   SpecFire   the removal timers next to cleanup_file and the bulk cleans*)
(*   SpecDownload handle_video_download with failing probe, fetch and      *)
(*              transport calls                                            *)
(*   SpecWords  check_banned_words on texts, character by character        *)
(*   SpecPin    SpecAdmin with restarts of the process                     *)
(*   SpecBroadcast SpecAdmin with the 'Send Message' button                *)
(*   SpecAccounts start_command of several accounts and the user menu      *)
(*   SpecFireFair SpecFire with a failing os.remove and fair timer threads *)
(*   SpecElevation SpecAdmin with the record of the users shown the        *)
(*              dashboard                                                  *)
(*   SpecLinks  messages and the user menu with the record of the highest  *)
(*              link_count of each id                                      *)
(***************************************************************************)
EXTENDS Integers, Sequences, FiniteSets, TLC

\* ------------------------------------------------------------------ bounds
\* link_count is unbounded in the code; handlers are disabled beyond this.
MaxLinks == 2

\* number of schedule_file_removal and cleanup_file calls made in SpecSched
MaxCalls == 2

\* channel_join_after_links of the document load_data finds at start-up
InitThreshold == 2

\* number of Telegram accounts that write to the bot in SpecAccounts
MaxAccounts == 3

\* file sizes handed to calculate_removal_time: multiples of 10 MB up to
\* this many, next to the sizes around 0 and around 100 MB
MaxTenMB == 25

\* number of handler calls dispatched to the worker threads in SpecRace
MaxWorkers == 3

\* number of schedule_message_deletion calls, and of schedule_file_removal
\* calls, made in SpecExpiry
MaxExpiryCalls == 1

\* number of schedule_file_removal calls made in SpecFire, which makes one
\* call more when the last one is a cleanup_file
MaxFireCalls == 1

\* number of handle_video_download calls made in SpecDownload
MaxDownloads == 1

\* length of the texts given to check_banned_words in SpecWords
MaxTextLen == 3

\* length of the banned_words list in SpecWords
MaxWords == 2

\* number of handler calls dispatched to the worker threads in SpecGate
MaxGateCalls == 4

\* ------------------------------------------------------------- input sets
\* payloads of the set_link_threshold_<n> buttons tried in the model
ThresholdOptions == {InitThreshold - 1, InitThreshold}

\* Telegram user ids that send messages and press buttons.
Users == {1}

\* The default of os.getenv("ADMIN_PIN", ...) and a second well-formed PIN.
EnvAdminPin == "872398"
OtherPin == "123456"

\* admin_settings["admin_pin"] is absent until the PIN is changed.
Unset == "<unset>"

\* the help channel load_data falls back on, an invite link
DefaultHelpChannel == "https://t.me/+enYm2HitF0BkNTZl"

\* Strings that add_banned_word may be given in the model.
WordPool == {"spam", "boss"}

\* re.findall(url_pattern, text): the URLs of the text, left to right.
ExtractUrls(t) ==
  CASE t = "https://youtu.be/a" -> << "https://youtu.be/a" >>
    [] t = "https://tiktok.com/b" -> << "https://tiktok.com/b" >>
    [] t = "https://example.org/c" -> << "https://example.org/c" >>
    [] t = "Spam https://youtu.be/a" -> << "https://youtu.be/a" >>
    [] t = "https://youtu.be/a https://tiktok.com/b"
         -> << "https://youtu.be/a", "https://tiktok.com/b" >>
    [] t = "https://example.org/c https://youtu.be/a"
         -> << "https://example.org/c", "https://youtu.be/a" >>
    [] t = "https://youtu.be/a https://example.org/c"
         -> << "https://youtu.be/a", "https://example.org/c" >>
    [] t = "https://t.me/pub" -> << "https://t.me/pub" >>
    [] t = "https://t.me/+inv" -> << "https://t.me/+inv" >>
    [] OTHER -> << >>

\* 'http' in text.lower() or 'www.' in text.lower()
MessageHasLinks(t) == ExtractUrls(t) # << >> \/ t = "www.site"

\* is_video_url(url): a video domain occurs in the url and so does 'http'.
is_video_url(url) == url \in {"https://youtu.be/a", "https://tiktok.com/b"}

\* word.lower() in text.lower(), for the words of WordPool.
ContainsWord(t, w) ==
  \/ w = "spam" /\ t \in {"Spam", "Spam https://youtu.be/a"}
  \/ w = "boss" /\ t \in {"I AM BOSS", "boss"}

\* text.strip()
Strip(t) == IF t = " 123456" THEN "123456" ELSE t

\* text.lower().strip()
LowerStrip(t) ==
  CASE t = "Spam" -> "spam"
    [] t = " 123456" -> "123456"
    [] t = "I AM BOSS" -> "i am boss"
    [] t = "Spam https://youtu.be/a" -> "spam https://youtu.be/a"
    [] OTHER -> t

\* len(new_pin) == 6 and new_pin.isdigit()
IsSixDigits(t) == t \in {"872398", "123456"}

\* new_channel.startswith('https://t.me/') or new_channel.startswith('@')
HasChannelMarker(t) == t \in {"https://t.me/pub", "https://t.me/+inv", "@pub"}

\* channel.replace('https://t.me/', '').replace('@', '').startswith('+')
IsPrivateChannel(c) == c \in {"https://t.me/+inv", DefaultHelpChannel}

\* os.path.getsize results handed to calculate_removal_time, in bytes
FileSizes ==
  {-1, 0, 1, 100 * 1024 * 1024 - 1, 100 * 1024 * 1024, 100 * 1024 * 1024 + 1}
    \cup {k * 10 * 1024 * 1024 : k \in 0..MaxTenMB}

\* payloads of the set_base_removal_time_<n> buttons
BaseTimeOptions == {15, 30, 45, 60, 120}

\* results of random.randint(15, 20)
RandomMinutes == 15..20

\* answers of bot.get_chat_member: the status of the member, or "error"
\* when the request raises
MemberStatuses ==
  {"member", "administrator", "creator", "restricted", "left", "kicked",
   "error"}

\* artifact paths handed to the FileAutoRemovalManager
Paths == {"p1"}

\* ------------------------------------------------------------------ state
VARIABLES
  users,                         \* user_data["users"]: id -> record
  total_users,                   \* user_data["bot_stats"]["total_users"]
  admin_settings,                \* user_data["admin_settings"]
  ADMIN_PIN,                     \* module global, rebound by handle_new_pin_input
  waiting_for_admin_pin,         \* the six pending-input maps (their key sets)
  waiting_for_banned_word,
  waiting_for_promotion_channel,
  waiting_for_help_channel,
  waiting_for_new_pin,
  waiting_for_admin_message,
  user_pending_downloads,        \* id -> url stored while awaiting verification
  gate_hist,                     \* id -> threshold in force when log_link last
                                 \* asked this record to join, 0 if it never did
  last,                          \* what the most recent handler did
  files,                         \* artifact paths present in DOWNLOADS_DIR
  scheduled_removals,            \* FileAutoRemovalManager.scheduled_removals
  timers,                        \* threading.Timer objects created so far
  threads,                       \* calls of schedule_file_removal in progress
  sched_log,                     \* what the scheduler operations did
  calc,                          \* the last call of calculate_removal_time
  fs,                            \* path -> content of DATA_FILE and its .tmp
  saver,                         \* position of the data manager's thread
  store_log,                     \* what the data manager's operations did
  workers,                       \* handler threads inside UserDataManager
  calls,                         \* handler threads of the admin gate
  chat_messages,                 \* ids of the bot's messages still in the chat
  pending_message_deletions,     \* keys of the messages awaiting deletion
  msg_timers,                    \* threading.Timer objects of the deletions
  msg_calls,                     \* calls of schedule_message_deletion
  download_log,                  \* users[id]["downloads"], the total_downloads
                                 \* of the users and of bot_stats
  dl_call,                       \* the last call of handle_video_download
  scan,                          \* the last call of check_banned_words on a text
  hist                           \* what has happened so far: the highest
                                 \* link_count each id has had and the users
                                 \* who were shown the dashboard

msgVars == << chat_messages, pending_message_deletions, msg_timers,
              msg_calls >>

dlVars == << download_log, dl_call >>

chatVars == << users, total_users, admin_settings, ADMIN_PIN,
               waiting_for_admin_pin, waiting_for_banned_word,
               waiting_for_promotion_channel, waiting_for_help_channel,
               waiting_for_new_pin, waiting_for_admin_message,
               user_pending_downloads, gate_hist, last >>

schedVars == << files, scheduled_removals, timers, threads, sched_log >>

storeVars == << fs, saver, store_log >>

auxVars == << calc, fs, saver, store_log, workers, calls, msgVars, dlVars, scan, hist >>

vars == << users, total_users, admin_settings, ADMIN_PIN,
           waiting_for_admin_pin, waiting_for_banned_word,
           waiting_for_promotion_channel, waiting_for_help_channel,
           waiting_for_new_pin, waiting_for_admin_message,
           user_pending_downloads, gate_hist, last,
           files, scheduled_removals, timers, threads, sched_log,
           calc, fs, saver, store_log, workers, calls, msgVars, dlVars, scan, hist >>

flowVars == << waiting_for_admin_pin, waiting_for_banned_word,
               waiting_for_promotion_channel, waiting_for_help_channel,
               waiting_for_new_pin, waiting_for_admin_message >>

\* ------------------------------------------------------- UserDataManager
\* the record add_user creates on first contact
NewUser == [status |-> "active", link_count |-> 0, channel_joined |-> FALSE]

\* add_user on the users map: a new record on first contact, else the
\* record is kept (name and activity fields are not modelled)
add_user(us, u) ==
  IF u \in DOMAIN us THEN us
  ELSE [v \in DOMAIN us \cup {u} |-> IF v = u THEN NewUser ELSE us[v]]

\* add_user with total_users += 1 outside the first-contact branch
add_user_total_always(us, u, n) == n + 1

\* the total_users counter after add_user
add_user_total(us, u, n) == IF u \in DOMAIN us THEN n ELSE n + 1

\* check_banned_words: the banned words occurring in the text, in list order
check_banned_words(t) ==
  IF ~admin_settings.banned_words_enabled THEN << >>
  ELSE SelectSeq(admin_settings.banned_words, LAMBDA w : ContainsWord(t, w))

\* needs_channel_join with > in place of >=
needs_channel_join_gt(count, joined) ==
  /\ admin_settings.channel_join_required
  /\ count > admin_settings.channel_join_after_links
  /\ ~joined

\* needs_channel_join with = in place of >=
needs_channel_join_eq(count, joined) ==
  /\ admin_settings.channel_join_required
  /\ count = admin_settings.channel_join_after_links
  /\ ~joined

\* the needs_channel_join expression of log_link
needs_channel_join(count, joined) ==
  /\ admin_settings.channel_join_required
  /\ count >= admin_settings.channel_join_after_links
  /\ ~joined

\* log_link for an existing user: the record with link_count + 1
log_link_users(us, u) ==
  IF u \in DOMAIN us
  THEN [us EXCEPT ![u].link_count = us[u].link_count + 1]
  ELSE us

\* the dictionary log_link returns
log_link_info(us, u) ==
  IF u \in DOMAIN us
  THEN [link_count |-> us[u].link_count + 1,
        needs_channel_join |->
          needs_channel_join(us[u].link_count + 1, us[u].channel_joined),
        threshold |-> admin_settings.channel_join_after_links]
  ELSE [link_count |-> 0, needs_channel_join |-> FALSE, threshold |-> 5]

\* add_banned_word on the list: appended when non-empty and not present
add_banned_word(bw, w) ==
  IF w # "" /\ \A i \in 1..Len(bw) : bw[i] # w THEN Append(bw, w) ELSE bw

\* remove_banned_word on the list
remove_banned_word(bw, w) == SelectSeq(bw, LAMBDA x : x # w)

\* ----------------------------------------------- universal_message_enforcement
\* the loop without the needs_channel_join branch: every video url is fetched
RECURSIVE ProcessUrls_nogate(_, _, _, _)
ProcessUrls_nogate(urls, us, u, infos) ==
  IF urls = << >>
  THEN [users |-> us, infos |-> infos, outcome |-> "none", url |-> ""]
  ELSE LET url == Head(urls)
           us1 == log_link_users(us, u)
           infos1 == Append(infos, log_link_info(us, u))
       IN IF is_video_url(url)
          THEN [users |-> us1, infos |-> infos1,
                outcome |-> "fetch", url |-> url]
          ELSE ProcessUrls_nogate(Tail(urls), us1, u, infos1)

\* the "for url in urls" loop: every url is logged until the first video
\* url, whose branch returns from the handler
RECURSIVE ProcessUrls(_, _, _, _)
ProcessUrls(urls, us, u, infos) ==
  IF urls = << >>
  THEN [users |-> us, infos |-> infos, outcome |-> "none", url |-> ""]
  ELSE LET url == Head(urls)
           info == log_link_info(us, u)
           us1 == log_link_users(us, u)
           infos1 == Append(infos, info)
       IN IF is_video_url(url)
          THEN IF info.needs_channel_join
               THEN [users |-> us1, infos |-> infos1,
                     outcome |-> "prompt", url |-> url]
               ELSE [users |-> us1, infos |-> infos1,
                     outcome |-> "fetch", url |-> url]
          ELSE ProcessUrls(Tail(urls), us1, u, infos1)

\* the elif chain over the pending-input maps: the first map that holds the
\* user decides the handler
FlowOf(u) ==
  IF u \in waiting_for_admin_pin THEN "admin_pin"
  ELSE IF u \in waiting_for_banned_word THEN "banned_word"
  ELSE IF u \in waiting_for_promotion_channel THEN "promotion_channel"
  ELSE IF u \in waiting_for_help_channel THEN "help_channel"
  ELSE IF u \in waiting_for_new_pin THEN "new_pin"
  ELSE IF u \in waiting_for_admin_message THEN "admin_message"
  ELSE "none"

\* the pending-input maps that hold the user
PendingFlows(u) ==
  (IF u \in waiting_for_admin_pin THEN {"admin_pin"} ELSE {}) \cup
  (IF u \in waiting_for_banned_word THEN {"banned_word"} ELSE {}) \cup
  (IF u \in waiting_for_promotion_channel THEN {"promotion_channel"} ELSE {}) \cup
  (IF u \in waiting_for_help_channel THEN {"help_channel"} ELSE {}) \cup
  (IF u \in waiting_for_new_pin THEN {"new_pin"} ELSE {}) \cup
  (IF u \in waiting_for_admin_message THEN {"admin_message"} ELSE {})

\* observation record of a handler that did nothing yet
NoLast ==
  [op |-> "init", user |-> 0, urls |-> << >>, violation |-> FALSE,
   deleted |-> FALSE, count_before |-> 0, infos |-> << >>,
   fetched |-> << >>, prompted |-> "", consumed |-> "none",
   started |-> "none", dashboard |-> FALSE,
   existed |-> FALSE, was_banned |-> FALSE, verified |-> FALSE,
   gate_before |-> 0]

\* message handlers are tried in registration order; the first whose filter
\* accepts the message runs
Dispatch(u, t) ==
  IF t = "I AM BOSS" THEN "admin_panel_request"
  ELSE IF u \in waiting_for_admin_pin THEN "handle_admin_pin_entry"
  ELSE "universal_message_enforcement"

\* the observation a message handler starts from
MsgLast(op, u, t) ==
  [NoLast EXCEPT !.op = op, !.user = u, !.urls = ExtractUrls(t),
     !.violation = (check_banned_words(t) # << >>),
     !.count_before = IF u \in DOMAIN users THEN users[u].link_count ELSE 0,
     !.existed = (u \in DOMAIN users),
     !.was_banned = (u \in DOMAIN users /\ users[u].status = "banned"),
     !.gate_before = gate_hist[u]]

\* the observation a callback handler starts from
CallLast(op, u) ==
  [NoLast EXCEPT !.op = op, !.user = u]

\* admin_panel_request: the trigger phrase registers the user, deletes the
\* trigger message and begins the PIN flow
admin_panel_request(u, t) ==
  /\ Dispatch(u, t) = "admin_panel_request"
  /\ users' = add_user(users, u)
  /\ total_users' = add_user_total(users, u, total_users)
  /\ waiting_for_admin_pin' = waiting_for_admin_pin \cup {u}
  /\ last' = [MsgLast("admin_panel_request", u, t) EXCEPT
                !.deleted = TRUE, !.started = "admin_pin"]
  /\ UNCHANGED << admin_settings, ADMIN_PIN, waiting_for_banned_word,
                  waiting_for_promotion_channel, waiting_for_help_channel,
                  waiting_for_new_pin, waiting_for_admin_message,
                  user_pending_downloads, gate_hist >>
  /\ UNCHANGED << schedVars, auxVars >>

\* a pending-input handler that leaves its slot in place
del_slot_kept(m, f, flow, u) == m

\* del waiting_for_<f>[user.id], the first effect of the handler of flow f
del_slot(m, f, flow, u) == IF flow = f THEN m \ {u} ELSE m

\* the PIN comparison with a lockout: no PIN is accepted once an attempt
\* was answered with the error message
PinAccepted_lockout(entered) ==
  /\ entered = ADMIN_PIN
  /\ \A i \in DOMAIN calls :
       \A k \in DOMAIN calls[i].ev : calls[i].ev[k] # "error"

\* the PIN comparison of handle_admin_pin_entry
PinAccepted(entered) ==
  \/ entered = ADMIN_PIN
  \/ entered = (IF admin_settings.admin_pin = Unset THEN ADMIN_PIN
                ELSE admin_settings.admin_pin)

\* handle_admin_pin_entry: the next text of a user awaiting the PIN clears
\* the slot, is deleted and compared
handle_admin_pin_entry(u, t) ==
  /\ Dispatch(u, t) = "handle_admin_pin_entry"
  /\ waiting_for_admin_pin' =
       del_slot(waiting_for_admin_pin, "admin_pin", "admin_pin", u)
  /\ last' = [MsgLast("handle_admin_pin_entry", u, t) EXCEPT
                !.deleted = TRUE, !.consumed = "admin_pin",
                !.dashboard = PinAccepted(Strip(t))]
  /\ UNCHANGED << users, total_users, admin_settings, ADMIN_PIN,
                  waiting_for_banned_word, waiting_for_promotion_channel,
                  waiting_for_help_channel, waiting_for_new_pin,
                  waiting_for_admin_message, user_pending_downloads,
                  gate_hist >>
  /\ UNCHANGED << schedVars, auxVars >>

\* the pending-input handlers without their validation of the text
FlowSettings_noguard(flow, t) ==
  CASE flow = "banned_word" ->
         [admin_settings EXCEPT !.banned_words = Append(@, LowerStrip(t))]
    [] flow = "promotion_channel" ->
         [admin_settings EXCEPT !.promotion_channel = Strip(t)]
    [] flow = "help_channel" ->
         [admin_settings EXCEPT !.help_channel = Strip(t)]
    [] flow = "new_pin" ->
         [admin_settings EXCEPT !.admin_pin = Strip(t)]
    [] OTHER -> admin_settings

\* the admin settings after the pending-input handler of the flow has
\* validated the text (handle_banned_word_addition,
\* handle_promotion_channel_input, handle_help_channel_input,
\* handle_new_pin_input)
FlowSettings(flow, t) ==
  CASE flow = "banned_word" ->
         [admin_settings EXCEPT
            !.banned_words = add_banned_word(@, LowerStrip(t))]
    [] flow = "promotion_channel" /\ HasChannelMarker(Strip(t)) ->
         [admin_settings EXCEPT !.promotion_channel = Strip(t)]
    [] flow = "help_channel" /\ HasChannelMarker(Strip(t)) ->
         [admin_settings EXCEPT !.help_channel = Strip(t)]
    [] flow = "new_pin" /\ IsSixDigits(Strip(t)) ->
         [admin_settings EXCEPT !.admin_pin = Strip(t)]
    [] OTHER -> admin_settings

\* the global ADMIN_PIN after handle_new_pin_input
FlowAdminPin(flow, t) ==
  IF flow = "new_pin" /\ IsSixDigits(Strip(t)) THEN Strip(t) ELSE ADMIN_PIN

\* handle_banned_words_detection returns True only when the delete and the
\* warning send both went through; an exception in either returns False
handle_banned_words_detection(t, delOk, sendOk) ==
  check_banned_words(t) # << >> /\ delOk /\ sendOk

\* universal_message_enforcement, from the ban check to the dispatch into
\* the pending-input handlers
universal_message_enforcement(u, t, delOk, sendOk) ==
  /\ Dispatch(u, t) = "universal_message_enforcement"
  /\ LET banned == u \in DOMAIN users /\ users[u].status = "banned"
         us1 == add_user(users, u)
         found == check_banned_words(t)
         enforced == handle_banned_words_detection(t, delOk, sendOk)
         r == IF MessageHasLinks(t)
              THEN ProcessUrls(ExtractUrls(t), us1, u, << >>)
              ELSE [users |-> us1, infos |-> << >>,
                    outcome |-> "none", url |-> ""]
         anon == ~MessageHasLinks(t) /\ PendingFlows(u) = {}
         anonDeleted == anon /\ delOk /\ found = << >>
         stop == banned \/ enforced \/ r.outcome # "none" \/ anonDeleted
         flow == IF stop THEN "none" ELSE FlowOf(u)
         l0 == MsgLast("universal_message_enforcement", u, t)
     IN
     /\ ~banned /\ ~enforced => r.users[u].link_count <= MaxLinks
     /\ flow = "banned_word" => LowerStrip(t) \in WordPool
     /\ IF banned
        THEN /\ last' = [l0 EXCEPT !.deleted = TRUE]
             /\ UNCHANGED << users, total_users, admin_settings, ADMIN_PIN,
                             user_pending_downloads, gate_hist >>
             /\ UNCHANGED flowVars
        ELSE IF enforced
        THEN /\ users' = us1
             /\ total_users' = add_user_total(users, u, total_users)
             /\ last' = [l0 EXCEPT !.deleted = TRUE]
             /\ UNCHANGED << admin_settings, ADMIN_PIN,
                             user_pending_downloads, gate_hist >>
             /\ UNCHANGED flowVars
        ELSE /\ users' = r.users
             /\ total_users' = add_user_total(users, u, total_users)
             /\ user_pending_downloads' =
                  IF r.outcome = "prompt"
                  THEN [v \in DOMAIN user_pending_downloads \cup {u} |->
                          IF v = u THEN r.url ELSE user_pending_downloads[v]]
                  ELSE user_pending_downloads
             /\ gate_hist' =
                  IF \E i \in 1..Len(r.infos) : r.infos[i].needs_channel_join
                  THEN [gate_hist EXCEPT
                          ![u] = admin_settings.channel_join_after_links]
                  ELSE gate_hist
             /\ admin_settings' = FlowSettings(flow, t)
             /\ ADMIN_PIN' = FlowAdminPin(flow, t)
             /\ waiting_for_admin_pin' =
                  del_slot(waiting_for_admin_pin, "admin_pin", flow, u)
             /\ waiting_for_banned_word' =
                  del_slot(waiting_for_banned_word, "banned_word", flow, u)
             /\ waiting_for_promotion_channel' =
                  del_slot(waiting_for_promotion_channel,
                           "promotion_channel", flow, u)
             /\ waiting_for_help_channel' =
                  del_slot(waiting_for_help_channel, "help_channel", flow, u)
             /\ waiting_for_new_pin' =
                  del_slot(waiting_for_new_pin, "new_pin", flow, u)
             /\ waiting_for_admin_message' =
                  del_slot(waiting_for_admin_message, "admin_message",
                           flow, u)
             /\ last' = [l0 EXCEPT
                  !.deleted = \/ found # << >> /\ delOk
                              \/ anonDeleted
                              \/ flow # "none",
                  !.infos = r.infos,
                  !.fetched = IF r.outcome = "fetch" THEN << r.url >>
                              ELSE << >>,
                  !.prompted = IF r.outcome = "prompt" THEN r.url ELSE "",
                  !.consumed = flow]
  /\ UNCHANGED << schedVars, auxVars >>

\* ---------------------------------------------------- handle_callback_query
\* a settings callback that also clears every user's channel_joined flag
SettingCallback_reset(op, u, new) ==
  /\ admin_settings' = new
  /\ users' = [v \in DOMAIN users |->
                 [users[v] EXCEPT !.channel_joined = FALSE]]
  /\ last' = CallLast(op, u)
  /\ UNCHANGED << total_users, ADMIN_PIN, user_pending_downloads,
                  gate_hist >>
  /\ UNCHANGED flowVars
  /\ UNCHANGED << schedVars, auxVars >>

\* a callback that only rewrites admin_settings
SettingCallback(op, u, new) ==
  /\ admin_settings' = new
  /\ last' = CallLast(op, u)
  /\ UNCHANGED << users, total_users, ADMIN_PIN, user_pending_downloads,
                  gate_hist >>
  /\ UNCHANGED flowVars
  /\ UNCHANGED << schedVars, auxVars >>

\* "toggle_channel_join"
toggle_channel_join(u) ==
  SettingCallback("toggle_channel_join", u,
    [admin_settings EXCEPT !.channel_join_required = ~@])

\* "set_link_threshold_<n>"
set_link_threshold(u, n) ==
  SettingCallback("set_link_threshold", u,
    [admin_settings EXCEPT !.channel_join_after_links = n])

\* "toggle_banned_words"
toggle_banned_words(u) ==
  SettingCallback("toggle_banned_words", u,
    [admin_settings EXCEPT !.banned_words_enabled = ~@])

\* "remove_banned_word_<word>"
remove_banned_word_callback(u, w) ==
  SettingCallback("remove_banned_word", u,
    [admin_settings EXCEPT !.banned_words = remove_banned_word(@, w)])

\* a callback that only puts the user into one pending-input map
BeginCallback(op, u, tag) ==
  /\ last' = [CallLast(op, u) EXCEPT !.started = tag]
  /\ UNCHANGED << users, total_users, admin_settings, ADMIN_PIN,
                  user_pending_downloads, gate_hist, waiting_for_admin_pin,
                  waiting_for_admin_message >>
  /\ UNCHANGED << schedVars, auxVars >>

\* "add_banned_word" -> handle_add_banned_word_request
handle_add_banned_word_request(u) ==
  /\ waiting_for_banned_word' = waiting_for_banned_word \cup {u}
  /\ UNCHANGED << waiting_for_promotion_channel, waiting_for_help_channel,
                  waiting_for_new_pin >>
  /\ BeginCallback("add_banned_word", u, "banned_word")

\* "change_promotion_channel" -> handle_promotion_channel_change_request
handle_promotion_channel_change_request(u) ==
  /\ waiting_for_promotion_channel' = waiting_for_promotion_channel \cup {u}
  /\ UNCHANGED << waiting_for_banned_word, waiting_for_help_channel,
                  waiting_for_new_pin >>
  /\ BeginCallback("change_promotion_channel", u, "promotion_channel")

\* "change_help_channel" -> handle_help_channel_change_request
handle_help_channel_change_request(u) ==
  /\ waiting_for_help_channel' = waiting_for_help_channel \cup {u}
  /\ UNCHANGED << waiting_for_banned_word, waiting_for_promotion_channel,
                  waiting_for_new_pin >>
  /\ BeginCallback("change_help_channel", u, "help_channel")

\* "admin_change_pin" -> handle_admin_pin_change_request
handle_admin_pin_change_request(u) ==
  /\ waiting_for_new_pin' = waiting_for_new_pin \cup {u}
  /\ UNCHANGED << waiting_for_banned_word, waiting_for_promotion_channel,
                  waiting_for_help_channel >>
  /\ BeginCallback("admin_change_pin", u, "new_pin")

\* check_channel_membership accepting every status get_chat_member answers
check_channel_membership_anystatus(c, status) ==
  IF IsPrivateChannel(c) THEN FALSE ELSE status # "error"

\* check_channel_membership: False for an invite-link channel, else whether
\* get_chat_member answered with member, administrator or creator; an
\* exception of the query ("error") is caught and answered with False
check_channel_membership(c, status) ==
  IF IsPrivateChannel(c) THEN FALSE
  ELSE status \in {"member", "administrator", "creator"}

\* the condition under which handle_channel_join_verification marks the
\* user as joined
VerificationPasses(promoMember, helpMember) ==
  /\ \/ check_channel_membership(admin_settings.promotion_channel, promoMember)
     \/ IsPrivateChannel(admin_settings.promotion_channel)
  /\ \/ check_channel_membership(admin_settings.help_channel, helpMember)
     \/ IsPrivateChannel(admin_settings.help_channel)

\* "verify_channel_join" -> handle_channel_join_verification; editOk is the
\* outcome of the edit_message_text that precedes the replay
handle_channel_join_verification(u, promoMember, helpMember, editOk) ==
  LET ok == VerificationPasses(promoMember, helpMember)
      pending == IF u \in DOMAIN user_pending_downloads
                 THEN user_pending_downloads[u] ELSE ""
  IN
  /\ users' = IF ok /\ u \in DOMAIN users
              THEN [users EXCEPT ![u].channel_joined = TRUE] ELSE users
  /\ user_pending_downloads' =
       IF ok /\ pending # ""
       THEN [v \in DOMAIN user_pending_downloads \ {u} |->
               user_pending_downloads[v]]
       ELSE user_pending_downloads
  /\ last' = [CallLast("verify_channel_join", u) EXCEPT
                !.prompted = pending,
                !.verified = ok,
                !.fetched = IF ok /\ pending # "" /\ editOk
                            THEN << pending >> ELSE << >>]
  /\ gate_hist' = IF ok /\ u \in DOMAIN users
                  THEN [gate_hist EXCEPT ![u] = 0] ELSE gate_hist
  /\ UNCHANGED << total_users, admin_settings, ADMIN_PIN >>
  /\ UNCHANGED flowVars
  /\ UNCHANGED << schedVars, auxVars >>

\* a callback that rewrites the users map
UserCallback(op, u, new, n) ==
  /\ users' = new
  /\ total_users' = n
  /\ gate_hist' = [v \in Users |-> IF v \in DOMAIN new THEN gate_hist[v]
                                   ELSE 0]
  /\ last' = CallLast(op, u)
  /\ UNCHANGED << admin_settings, ADMIN_PIN, user_pending_downloads >>
  /\ UNCHANGED flowVars
  /\ UNCHANGED << schedVars, auxVars >>

\* "ban_user_<id>" -> ban_user_account
ban_user_account(u, target) ==
  /\ target \in DOMAIN users
  /\ UserCallback("ban_user", u,
       [users EXCEPT ![target].status = "banned"], total_users)

\* "unban_user_<id>" -> unban_user_account
unban_user_account(u, target) ==
  /\ target \in DOMAIN users
  /\ UserCallback("unban_user", u,
       [users EXCEPT ![target].status = "active"], total_users)

\* "delete_user_<id>" -> remove_user_account
remove_user_account(u, target) ==
  /\ target \in DOMAIN users
  /\ UserCallback("delete_user", u,
       [v \in DOMAIN users \ {target} |-> users[v]],
       IF total_users > 0 THEN total_users - 1 ELSE total_users)

\* ------------------------------------------------ FileAutoRemovalManager
\* observation record of the scheduler: the last operation and its result,
\* the schedule_file_removal calls made for a path before a
\* cancel_file_removal of that path returned True (cancelled), those among
\* them that had returned with their timer still waiting (settled), and the
\* timers of cancelled calls whose action ran after that (late), and the
\* timers that were waiting for a path when its file was deleted by hand
\* (cleaned)
NoSchedLog ==
  [op |-> "init", path |-> "", result |-> FALSE, fired |-> FALSE,
   cancelled |-> {}, settled |-> {}, late |-> {}, cleaned |-> {}]

\* the observation after an operation other than a cancel
Quiet(l) == [l EXCEPT !.op = "other", !.path = "", !.result = FALSE,
                      !.fired = FALSE]

\* the table without the entry of a path
DropEntry(tab, p) == [q \in DOMAIN tab \ {p} |-> tab[q]]

\* the table with the entry of a path set
PutEntry(tab, p, e) ==
  [q \in DOMAIN tab \cup {p} |-> IF q = p THEN e ELSE tab[q]]

\* "toggle_auto_removal"
toggle_auto_removal ==
  /\ admin_settings' = [admin_settings EXCEPT !.auto_removal_enabled = ~@]
  /\ sched_log' = Quiet(sched_log)
  /\ UNCHANGED << users, total_users, ADMIN_PIN, user_pending_downloads,
                  gate_hist, last, files, scheduled_removals, timers,
                  threads >>
  /\ UNCHANGED << flowVars, auxVars >>

\* download_video has written the artifact and calls schedule_file_removal:
\* the enabled check and, under the lock, the table entry with timer None
schedule_insert(p) ==
  /\ Len(threads) < MaxCalls
  /\ files' = files \cup {p}
  /\ IF admin_settings.auto_removal_enabled
     THEN /\ threads' = Append(threads, [path |-> p, pc |-> "start", timer |-> 0])
          /\ scheduled_removals' =
               PutEntry(scheduled_removals, p,
                        [timer |-> 0])
     ELSE /\ threads' = Append(threads, [path |-> p, pc |-> "disabled", timer |-> 0])
          /\ UNCHANGED scheduled_removals
  /\ sched_log' = Quiet(sched_log)
  /\ UNCHANGED timers
  /\ UNCHANGED << chatVars, auxVars >>

\* threading.Timer(...) and timer.start()
schedule_start(c) ==
  /\ threads[c].pc = "start"
  /\ timers' = Append(timers, [path |-> threads[c].path, call |-> c,
                               st |-> "waiting", removed |-> FALSE])
  /\ threads' = [threads EXCEPT ![c].pc = "register",
                                ![c].timer = Len(timers) + 1]
  /\ sched_log' = Quiet(sched_log)
  /\ UNCHANGED << files, scheduled_removals >>
  /\ UNCHANGED << chatVars, auxVars >>

\* under the lock: scheduled_removals[file_path]["timer"] = timer, which
\* raises KeyError when the entry is gone
schedule_register(c) ==
  /\ threads[c].pc = "register"
  /\ LET p == threads[c].path IN
     IF p \in DOMAIN scheduled_removals
     THEN /\ scheduled_removals' =
               [scheduled_removals EXCEPT ![p].timer = threads[c].timer]
          /\ threads' = [threads EXCEPT ![c].pc = "returned"]
          /\ sched_log' = Quiet(sched_log)
     ELSE /\ threads' = [threads EXCEPT ![c].pc = "raised"]
          /\ sched_log' = Quiet(sched_log)
          /\ UNCHANGED scheduled_removals
  /\ UNCHANGED << files, timers >>
  /\ UNCHANGED << chatVars, auxVars >>

\* the timers that have not fired and were not cancelled, of the paths ps
WaitingFor(ps) ==
  {k \in DOMAIN timers : timers[k].path \in ps /\ timers[k].st = "waiting"}

\* Timer.cancel(): a timer that has not fired yet never will
TimerCancel(ts, k) ==
  IF k # 0 /\ ts[k].st = "waiting" THEN [ts EXCEPT ![k].st = "cancelled"]
  ELSE ts

\* the timers after cancel_file_removal found the entry e
CancelTimers(ts, e) == TimerCancel(ts, e.timer)

\* the lock region of cancel_file_removal
CancelRegion(p, op) ==
  /\ IF p \in DOMAIN scheduled_removals
     THEN LET e == scheduled_removals[p]
              k == e.timer
          IN /\ timers' = CancelTimers(timers, e)
             /\ scheduled_removals' = DropEntry(scheduled_removals, p)
             /\ sched_log' = [sched_log EXCEPT !.op = op, !.path = p,
                  !.result = TRUE,
                  !.fired = (k # 0 /\ timers[k].st \notin {"waiting", "cancelled"}),
                  !.cancelled = @ \cup
                     {c \in 1..Len(threads) :
                        /\ threads[c].path = p
                        /\ threads[c].pc \in {"start", "register", "returned"}
                        /\ threads[c].timer # 0 =>
                             timers[threads[c].timer].st \in {"waiting", "running"}},
                  !.settled = @ \cup
                     {c \in 1..Len(threads) :
                        /\ threads[c].path = p
                        /\ threads[c].pc = "returned"
                        /\ threads[c].timer # 0
                        /\ timers[threads[c].timer].st = "waiting"},
                  !.cleaned = IF op = "cleanup_cancel"
                              THEN @ \cup WaitingFor({p}) ELSE @]
     ELSE /\ sched_log' = [sched_log EXCEPT !.op = op, !.path = p,
                  !.result = FALSE, !.fired = FALSE,
                  !.cleaned = IF op = "cleanup_cancel"
                              THEN @ \cup WaitingFor({p}) ELSE @]
          /\ UNCHANGED << timers, scheduled_removals >>
  /\ UNCHANGED files
  /\ UNCHANGED << chatVars, auxVars >>

\* cancel_file_removal called on its own
cancel_file_removal(p) ==
  /\ CancelRegion(p, "cancel")
  /\ UNCHANGED threads

\* cleanup_file: the scheduled removal is cancelled first
cleanup_file(p) ==
  /\ Len(threads) < MaxCalls
  /\ p \in files
  /\ CancelRegion(p, "cleanup_cancel")
  /\ threads' = Append(threads, [path |-> p, pc |-> "unlink", timer |-> 0])

\* cleanup_file: if os.path.exists(file_path): os.remove(file_path)
cleanup_unlink(c) ==
  /\ threads[c].pc = "unlink"
  /\ files' = files \ {threads[c].path}
  /\ threads' = [threads EXCEPT ![c].pc = "returned"]
  /\ sched_log' = Quiet(sched_log)
  /\ UNCHANGED << scheduled_removals, timers >>
  /\ UNCHANGED << chatVars, auxVars >>

\* "clean_all_files" and "confirm_remove_all_downloads": every file of the
\* downloads directory is removed and scheduled_removals.clear() is called,
\* without the lock and without a cancel() of the timers in the table
clean_all_files(op) ==
  /\ files' = {}
  /\ scheduled_removals' = << >>
  /\ sched_log' = [Quiet(sched_log) EXCEPT
                     !.op = op, !.cleaned = @ \cup WaitingFor(files)]
  /\ UNCHANGED << timers, threads >>
  /\ UNCHANGED << chatVars, auxVars >>

\* Timer.run: the delay has elapsed and the timer was not cancelled, so
\* remove_file is entered
timer_fire(k) ==
  /\ timers[k].st = "waiting"
  /\ timers' = [timers EXCEPT ![k].st = "running"]
  /\ sched_log' = Quiet(sched_log)
  /\ UNCHANGED << files, scheduled_removals, threads >>
  /\ UNCHANGED << chatVars, auxVars >>

\* remove_file without the os.path.exists test: os.remove is always tried
remove_file_exists_nocheck(k) ==
  /\ timers[k].st = "running"
  /\ timers' = [timers EXCEPT ![k].st = "unlinking"]
  /\ sched_log' = Quiet(sched_log)
  /\ UNCHANGED << files, scheduled_removals, threads >>
  /\ UNCHANGED << chatVars, auxVars >>

\* remove_file: os.path.exists(file_path)
remove_file_exists(k) ==
  /\ timers[k].st = "running"
  /\ timers' = [timers EXCEPT
                  ![k].st = IF timers[k].path \in files THEN "unlinking"
                            ELSE "unlinked"]
  /\ sched_log' = Quiet(sched_log)
  /\ UNCHANGED << files, scheduled_removals, threads >>
  /\ UNCHANGED << chatVars, auxVars >>

\* remove_file: os.remove(file_path); when the file is gone by now it
\* raises, the except clause logs and the table entry is left alone
remove_file_unlink(k) ==
  /\ timers[k].st = "unlinking"
  /\ files' = files \ {timers[k].path}
  /\ timers' = [timers EXCEPT
                  ![k].st = IF timers[k].path \in files THEN "unlinked"
                            ELSE "failed",
                  ![k].removed = (timers[k].path \in files)]
  /\ sched_log' = [Quiet(sched_log) EXCEPT
                     !.late = IF timers[k].call \in sched_log.cancelled
                              THEN @ \cup {k} ELSE @]
  /\ UNCHANGED << scheduled_removals, threads >>
  /\ UNCHANGED << chatVars, auxVars >>

\* remove_file: os.remove(file_path) raises OSError for a file that is
\* still there (it is in use, or the directory is not writable); the except
\* clause logs and the table entry is left alone
remove_file_unlink_error(k) ==
  /\ timers[k].st = "unlinking"
  /\ timers[k].path \in files
  /\ timers' = [timers EXCEPT ![k].st = "failed"]
  /\ sched_log' = Quiet(sched_log)
  /\ UNCHANGED << files, scheduled_removals, threads >>
  /\ UNCHANGED << chatVars, auxVars >>

\* remove_file: under the lock, the entry of the path is deleted if present
remove_file_forget(k) ==
  /\ timers[k].st = "unlinked"
  /\ timers' = [timers EXCEPT ![k].st = "done"]
  /\ scheduled_removals' = DropEntry(scheduled_removals, timers[k].path)
  /\ sched_log' = Quiet(sched_log)
  /\ UNCHANGED << files, threads >>
  /\ UNCHANGED << chatVars, auxVars >>

\* ----------------------------------------------- schedule_message_deletion
\* everything the message-deletion steps leave alone
msgFrame == << chatVars, schedVars, calc, storeVars, workers, calls,
              dlVars, scan, hist >>

\* update_deletion_time_setting: 0 switches auto-delete off, a delay
\* switches it on
update_deletion_time_setting(deletion_time) ==
  /\ admin_settings' =
       [admin_settings EXCEPT !.auto_delete_enabled = (deletion_time # 0)]
  /\ UNCHANGED << users, total_users, ADMIN_PIN, user_pending_downloads,
                  gate_hist, last, flowVars >>
  /\ UNCHANGED << schedVars, auxVars >>

\* schedule_message_deletion that tracks and times the message whatever
\* auto_delete_enabled says
schedule_message_deletion_always ==
  LET m == Len(msg_calls) + 1 IN
  /\ Len(msg_calls) < MaxExpiryCalls
  /\ chat_messages' = chat_messages \cup {m}
  /\ msg_calls' = Append(msg_calls, [key |-> m, pc |-> "start"])
  /\ pending_message_deletions' = pending_message_deletions \cup {m}
  /\ UNCHANGED << msg_timers, msgFrame >>

\* a handler has sent message m and calls schedule_message_deletion: the
\* enabled check and, under message_deletion_lock, the pending entry
schedule_message_deletion ==
  LET m == Len(msg_calls) + 1 IN
  /\ Len(msg_calls) < MaxExpiryCalls
  /\ chat_messages' = chat_messages \cup {m}
  /\ IF admin_settings.auto_delete_enabled
     THEN /\ msg_calls' = Append(msg_calls, [key |-> m, pc |-> "start"])
          /\ pending_message_deletions' = pending_message_deletions \cup {m}
     ELSE /\ msg_calls' = Append(msg_calls, [key |-> m, pc |-> "disabled"])
          /\ UNCHANGED pending_message_deletions
  /\ UNCHANGED << msg_timers, msgFrame >>

\* threading.Timer(delay_seconds, delete_message) and timer.start()
msg_timer_start(c) ==
  /\ msg_calls[c].pc = "start"
  /\ msg_timers' = Append(msg_timers, [key |-> msg_calls[c].key,
                                       st |-> "waiting", lock |-> FALSE])
  /\ msg_calls' = [msg_calls EXCEPT ![c].pc = "returned"]
  /\ UNCHANGED << chat_messages, pending_message_deletions, msgFrame >>

\* Timer.run: the delay has elapsed, delete_message is entered and takes
\* message_deletion_lock
msg_timer_fire(k) ==
  /\ msg_timers[k].st = "waiting"
  /\ \A j \in DOMAIN msg_timers : ~msg_timers[j].lock
  /\ msg_timers' = [msg_timers EXCEPT ![k].st = "forget", ![k].lock = TRUE]
  /\ UNCHANGED << chat_messages, pending_message_deletions, msg_calls,
                  msgFrame >>

\* delete_message: under the lock the key leaves pending_message_deletions,
\* then the lock is released
delete_message_forget(k) ==
  /\ msg_timers[k].st = "forget"
  /\ pending_message_deletions' = pending_message_deletions \ {msg_timers[k].key}
  /\ msg_timers' = [msg_timers EXCEPT ![k].st = "delete", ![k].lock = FALSE]
  /\ UNCHANGED << chat_messages, msg_calls, msgFrame >>

\* delete_message: bot.delete_message; an exception is logged by the
\* except clause and the timer thread ends
delete_message_call(k, ok) ==
  /\ msg_timers[k].st = "delete"
  /\ chat_messages' = IF ok THEN chat_messages \ {msg_timers[k].key}
                      ELSE chat_messages
  /\ msg_timers' = [msg_timers EXCEPT ![k].st = IF ok THEN "done"
                                                ELSE "logged"]
  /\ UNCHANGED << pending_message_deletions, msg_calls, msgFrame >>

\* the admin_settings of the document load_data makes up when it finds no
\* readable file
DefaultSettings ==
  [banned_words |-> << >>,
   banned_words_enabled |-> TRUE,
   channel_join_required |-> TRUE,
   channel_join_after_links |-> InitThreshold,
   promotion_channel |-> "https://t.me/follwnowo",
   help_channel |-> DefaultHelpChannel,
   admin_pin |-> Unset,
   auto_removal_enabled |-> TRUE,
   auto_delete_enabled |-> TRUE]

\* the document load_data makes up when it finds no readable file
DefaultDocument ==
  [users |-> << >>, total_users |-> 0, admin_settings |-> DefaultSettings]

\* ------------------------------------------------------------ start-up
\* load_data: the default document, with the threshold of the stored one
InitChat ==
  /\ users = << >>
  /\ total_users = 0
  /\ admin_settings = DefaultSettings
  /\ ADMIN_PIN = EnvAdminPin
  /\ waiting_for_admin_pin = {}
  /\ waiting_for_banned_word = {}
  /\ waiting_for_promotion_channel = {}
  /\ waiting_for_help_channel = {}
  /\ waiting_for_new_pin = {}
  /\ waiting_for_admin_message = {}
  /\ user_pending_downloads = << >>
  /\ gate_hist = [v \in Users |-> 0]
  /\ last = NoLast

\* FileAutoRemovalManager.__init__ and an empty downloads directory
InitSched ==
  /\ files = {}
  /\ scheduled_removals = << >>
  /\ timers = << >>
  /\ threads = << >>
  /\ sched_log = NoSchedLog

\* DATA_FILE and the temporary file save_data writes
DataFile == "user_data.json"

\* save_data writing into DATA_FILE itself
TempFile_inplace == DataFile

TempFile == "user_data.json.tmp"

\* a path that does not exist
NoFile == [exists |-> FALSE, complete |-> FALSE, doc |-> DefaultDocument]

\* observation record of the data manager before any operation
NoStoreLog ==
  [op |-> "init", key |-> "", value |-> 0, got |-> 0,
   before |-> DefaultSettings, disk_before |-> NoFile,
   snap |-> DefaultDocument, result |-> "none"]

\* first start: no data file, the data manager's thread outside save_data
InitStore ==
  /\ fs = [f \in {DataFile, TempFile} |-> NoFile]
  /\ saver = "idle"
  /\ store_log = NoStoreLog

\* the state after construction: besides the chat, scheduler and store
\* state, no calculate_removal_time call, no handler thread, no message
\* scheduled for deletion, no download logged and no handle_video_download
\* call made.  dl_call observes the last handle_video_download call: the
\* calls begun, the position of the call, whether the probe and the fetch
\* were made and how they ended, the texts handed to the transport with
\* their outcome, whether an exception left the handler, and the number of
\* schedule_file_removal calls made before it.  hist is written in
\* SpecLinks and SpecElevation only
Init ==
  /\ InitChat /\ InitSched /\ InitStore
  /\ calc = [size |-> 0, base |-> 30, minutes |-> 0, called |-> FALSE]
  /\ workers = << >>
  /\ calls = << >>
  /\ chat_messages = {}
  /\ pending_message_deletions = {}
  /\ msg_timers = << >>
  /\ msg_calls = << >>
  /\ download_log = [downloads |-> [u \in Users |-> << >>],
                     user_total |-> [u \in Users |-> 0],
                     total_downloads |-> 0]
  /\ dl_call = [n |-> 0, pc |-> "idle", user |-> 0, url |-> "",
                probe |-> "none", fetch |-> "none", sent |-> << >>,
                raised |-> FALSE, base |-> 0]
  /\ scan = [text |-> << >>, words |-> << >>, enabled |-> TRUE,
             found |-> << >>, called |-> FALSE]
  /\ hist = [peak |-> [v \in Users |-> 0], elevated |-> {}]

\* answers of bot.get_chat_member tried in Spec: an accepted status, a
\* status that is not accepted, a failed request
GateStatuses == {"member", "left", "error"}

\* texts sent in Spec: the trigger phrase, plain words and URLs
GateTexts ==
  { "I AM BOSS", "hello", "Spam",
    "https://youtu.be/a", "https://tiktok.com/b", "https://example.org/c",
    "Spam https://youtu.be/a",
    "https://youtu.be/a https://tiktok.com/b",
    "https://example.org/c https://youtu.be/a",
    "https://youtu.be/a https://example.org/c" }

\* outcomes of the warning send of handle_banned_words_detection, which is
\* made only for a text with a banned word
WarningOutcomes(t) ==
  IF check_banned_words(t) = << >> THEN {TRUE} ELSE BOOLEAN

\* one inbound text message with a text of T
OnMessage(T) ==
  \E u \in Users, t \in T :
    \/ admin_panel_request(u, t)
    \/ handle_admin_pin_entry(u, t)
    \/ \E delOk \in BOOLEAN, sendOk \in WarningOutcomes(t) :
         universal_message_enforcement(u, t, delOk, sendOk)

\* one press of a button of the channel, banned-word or user menus
OnCallback ==
  \E u \in Users :
    \/ toggle_channel_join(u)
    \/ \E n \in ThresholdOptions : set_link_threshold(u, n)
    \/ toggle_banned_words(u)
    \/ \E w \in WordPool : remove_banned_word_callback(u, w)
    \/ handle_add_banned_word_request(u)
    \/ handle_promotion_channel_change_request(u)
    \/ \E pm \in GateStatuses, hm \in GateStatuses, editOk \in BOOLEAN :
         handle_channel_join_verification(u, pm, hm, editOk)
    \/ \E target \in Users :
         \/ ban_user_account(u, target)
         \/ unban_user_account(u, target)
         \/ remove_user_account(u, target)

Next == OnMessage(GateTexts) \/ OnCallback

Spec == Init /\ [][Next]_vars

\* ------------------------------------------ membership verification
NextVerify ==
  \E u \in Users :
    \/ \E t \in {"https://youtu.be/a", "@pub", "https://t.me/+inv"}, delOk \in BOOLEAN :
         \E sendOk \in WarningOutcomes(t) :
           universal_message_enforcement(u, t, delOk, sendOk)
    \/ handle_promotion_channel_change_request(u)
    \/ handle_help_channel_change_request(u)
    \/ \E pm \in MemberStatuses, hm \in MemberStatuses, editOk \in BOOLEAN :
         handle_channel_join_verification(u, pm, hm, editOk)

SpecVerify == Init /\ [][NextVerify]_vars

\* --------------------------------------------------- the admin flows
\* texts sent in SpecAdmin: the trigger phrase, words, channel references
\* and PINs
AdminTexts ==
  { "I AM BOSS", "hello", "boss", "https://t.me/pub", "@pub",
    "872398", "123456", " 123456" }

\* the flows that have a begin handler
Flows ==
  {"admin_pin", "banned_word", "promotion_channel", "help_channel", "new_pin"}

\* the pending-input map of a flow
FlowMap(f) ==
  CASE f = "admin_pin" -> waiting_for_admin_pin
    [] f = "banned_word" -> waiting_for_banned_word
    [] f = "promotion_channel" -> waiting_for_promotion_channel
    [] f = "help_channel" -> waiting_for_help_channel
    [] f = "new_pin" -> waiting_for_new_pin
    [] OTHER -> waiting_for_admin_message

\* one press of a button that begins a pending-input flow
OnBegin ==
  \E u \in Users :
    \/ handle_add_banned_word_request(u)
    \/ handle_promotion_channel_change_request(u)
    \/ handle_help_channel_change_request(u)
    \/ handle_admin_pin_change_request(u)

NextAdmin == OnMessage(AdminTexts) \/ OnBegin

SpecAdmin == Init /\ [][NextAdmin]_vars

\* the process is stopped and started again: the module globals are bound
\* anew (ADMIN_PIN from the environment, empty pending-input maps and
\* pending downloads) and load_data reads the saved document
restart ==
  /\ ADMIN_PIN' = EnvAdminPin
  /\ waiting_for_admin_pin' = {}
  /\ waiting_for_banned_word' = {}
  /\ waiting_for_promotion_channel' = {}
  /\ waiting_for_help_channel' = {}
  /\ waiting_for_new_pin' = {}
  /\ waiting_for_admin_message' = {}
  /\ user_pending_downloads' = << >>
  /\ last' = [NoLast EXCEPT !.op = "restart"]
  /\ UNCHANGED << users, total_users, admin_settings, gate_hist >>
  /\ UNCHANGED << schedVars, auxVars >>

\* "message_user_<id>", the payload of the 'Send Message' button of
\* show_user_details: no branch of handle_callback_query matches it, so only
\* the callback is answered
message_user(u, target) ==
  /\ last' = CallLast("message_user", u)
  /\ UNCHANGED << users, total_users, admin_settings, ADMIN_PIN,
                  user_pending_downloads, gate_hist >>
  /\ UNCHANGED << flowVars, schedVars, auxVars >>

\* the admin flows with the 'Send Message' button
SpecBroadcast ==
  Init /\ [][NextAdmin \/ \E u \in Users, target \in Users :
                            message_user(u, target)]_vars

\* the admin flows; before the next handler runs, the user to whom
\* handle_admin_pin_entry has just rendered the dashboard is noted in
\* hist.elevated
SpecElevation ==
  Init /\ [][\/ (last.dashboard => last.user \in hist.elevated) /\ NextAdmin
             \/ /\ last.dashboard /\ last.user \notin hist.elevated
                /\ hist' = [hist EXCEPT !.elevated = @ \cup {last.user}]
                /\ UNCHANGED << chatVars, schedVars, calc, storeVars, workers,
                                calls, msgVars, dlVars, scan >>]_vars

\* the messages of Spec, the verification button and the buttons of the
\* user menu;
\* before the next handler runs, a link_count above every earlier one of
\* its id is noted in hist.peak
SpecLinks ==
  Init /\ [][\/ /\ \A v \in DOMAIN users : users[v].link_count <= hist.peak[v]
                /\ \/ OnMessage(GateTexts)
                   \/ \E u \in Users, pm \in GateStatuses, editOk \in BOOLEAN :
                        handle_channel_join_verification(u, pm, "member", editOk)
                   \/ \E u \in Users, target \in Users :
                        \/ ban_user_account(u, target)
                        \/ unban_user_account(u, target)
                        \/ remove_user_account(u, target)
             \/ /\ \E v \in DOMAIN users : users[v].link_count > hist.peak[v]
                /\ hist' = [hist EXCEPT
                              !.peak = [v \in Users |->
                                          IF v \in DOMAIN users
                                             /\ users[v].link_count > @[v]
                                          THEN users[v].link_count ELSE @[v]]]
                /\ UNCHANGED << chatVars, schedVars, calc, storeVars, workers,
                                calls, msgVars, dlVars, scan >>]_vars

\* the admin flows with restarts of the process
SpecPin == Init /\ [][NextAdmin \/ restart]_vars

\* ------------------------------------------ accounts and the user counter
\* "/start" -> start_command: a banned user is told of the suspension, any
\* other user is registered by add_user and welcomed
start_command(a) ==
  /\ users' = IF a \in DOMAIN users /\ users[a].status = "banned"
              THEN users ELSE add_user(users, a)
  /\ total_users' = IF a \in DOMAIN users /\ users[a].status = "banned"
                    THEN total_users
                    ELSE add_user_total(users, a, total_users)
  /\ last' = CallLast("start", a)
  /\ UNCHANGED << admin_settings, ADMIN_PIN, user_pending_downloads,
                  gate_hist >>
  /\ UNCHANGED << flowVars, schedVars, auxVars >>

\* first contacts of several accounts and the buttons of the user menu
SpecAccounts ==
  Init /\ [][\/ \E a \in 1..MaxAccounts : start_command(a)
             \/ \E u \in Users, target \in 1..MaxAccounts :
                  \/ ban_user_account(u, target)
                  \/ unban_user_account(u, target)
                  \/ remove_user_account(u, target)]_vars

\* ------------------------------------- handler threads in UserDataManager
\* telebot.TeleBot(BOT_TOKEN) runs the handlers on its pool of worker
\* threads (threaded, two threads unless told otherwise); add_user and
\* log_link take no lock around their reads and writes of user_data, so
\* two handlers interleave at the granularity of the dict operations.

\* threads of the worker pool
NumThreads == 2

\* everything the data manager steps leave alone
raceFrame == << admin_settings, ADMIN_PIN, flowVars, user_pending_downloads,
                gate_hist, last, schedVars, calc, storeVars, calls, msgVars, dlVars, scan, hist >>

\* the handler calls that have not returned
Running == {i \in DOMAIN workers : workers[i].pc # "done"}

\* a handler call at the entry of add_user
NewWorker(op, u) ==
  [op |-> op, user |-> u, pc |-> "au_check", reg |-> 0, stale |-> FALSE]

\* the statement after add_user in the handler
after_add_user(w) == IF w.op = "link_message" THEN "ll_check" ELSE "done"

\* an update is handed to a free worker thread
race_start(op, u) ==
  /\ Len(workers) < MaxWorkers
  /\ Cardinality(Running) < NumThreads
  /\ workers' = Append(workers, NewWorker(op, u))
  /\ UNCHANGED << users, total_users, raceFrame >>

\* add_user: if user_id_str not in self.user_data["users"]
au_check(i) ==
  /\ workers[i].pc = "au_check"
  /\ workers' = [workers EXCEPT ![i].pc =
                   IF workers[i].user \in DOMAIN users
                   THEN after_add_user(workers[i]) ELSE "au_create"]
  /\ UNCHANGED << users, total_users, raceFrame >>

\* add_user: self.user_data["users"][user_id_str] = {...}; a record stored
\* by another thread since the check is replaced, and a thread inside
\* log_link keeps its reference to the replaced record
au_create(i) ==
  LET u == workers[i].user IN
  /\ workers[i].pc = "au_create"
  /\ users' = [v \in DOMAIN users \cup {u} |->
                 IF v = u THEN NewUser ELSE users[v]]
  /\ workers' =
       [j \in DOMAIN workers |->
          IF j = i THEN [workers[j] EXCEPT !.pc = "au_read"]
          ELSE IF workers[j].user = u /\ ~workers[j].stale
                  /\ workers[j].pc \in {"ll_read", "ll_write"}
          THEN [workers[j] EXCEPT
                  !.stale = TRUE,
                  !.reg = IF workers[j].pc = "ll_read"
                          THEN users[u].link_count ELSE @]
          ELSE workers[j]]
  /\ UNCHANGED << total_users, raceFrame >>

\* add_user: total_users += 1, the load of the counter
au_read(i) ==
  /\ workers[i].pc = "au_read"
  /\ workers' = [workers EXCEPT ![i].pc = "au_write", ![i].reg = total_users]
  /\ UNCHANGED << users, total_users, raceFrame >>

\* add_user: total_users += 1, the store of the sum
au_write(i) ==
  /\ workers[i].pc = "au_write"
  /\ total_users' = workers[i].reg + 1
  /\ workers' = [workers EXCEPT ![i].pc = after_add_user(workers[i])]
  /\ UNCHANGED << users, raceFrame >>

\* log_link: if user_id_str in self.user_data["users"], then
\* user_data = self.user_data["users"][user_id_str]
ll_check(i) ==
  /\ workers[i].pc = "ll_check"
  /\ workers' = [workers EXCEPT ![i].pc =
                   IF workers[i].user \in DOMAIN users
                   THEN "ll_read" ELSE "done"]
  /\ UNCHANGED << users, total_users, raceFrame >>

\* log_link: user_data["link_count"] += 1, the load of the counter
ll_read(i) ==
  /\ workers[i].pc = "ll_read"
  /\ workers' = [workers EXCEPT
                   ![i].pc = "ll_write",
                   ![i].reg = IF workers[i].stale THEN @
                              ELSE users[workers[i].user].link_count]
  /\ UNCHANGED << users, total_users, raceFrame >>

\* log_link: user_data["link_count"] += 1, the store of the sum into the
\* record the thread holds, which is no longer in the map if it was replaced
ll_write(i) ==
  /\ workers[i].pc = "ll_write"
  /\ users' = IF workers[i].stale THEN users
              ELSE [users EXCEPT ![workers[i].user].link_count =
                                   workers[i].reg + 1]
  /\ workers' = [workers EXCEPT ![i].pc = "done"]
  /\ UNCHANGED << total_users, raceFrame >>

\* the handlers by their calls into the data manager: a message with one
\* URL calls add_user and then log_link, every other handler add_user only
NextRace ==
  \/ \E op \in {"link_message", "plain_message"}, u \in Users :
       race_start(op, u)
  \/ \E i \in DOMAIN workers :
       \/ au_check(i)
       \/ au_create(i)
       \/ au_read(i)
       \/ au_write(i)
       \/ ll_check(i)
       \/ ll_read(i)
       \/ ll_write(i)

SpecRace == Init /\ [][NextRace]_vars

\* ------------------------------------ handler threads of the admin gate
\* The filters of the message handlers are evaluated by the polling thread
\* when the update arrives; the handler then runs on a worker thread, one
\* statement at a time, interleaved with the handler of the other thread.

\* admin_panel_request with the flow begun before the trigger is deleted
AdminPanelProgram_beginfirst ==
  << "add_user", "begin", "delete_message", "send_message",
     "schedule_deletion" >>

\* the statements of admin_panel_request in program order
AdminPanelProgram ==
  << "add_user", "delete_message", "begin", "send_message",
     "schedule_deletion" >>

\* the statements of handle_admin_pin_entry in program order
PinEntryProgram ==
  << "check", "strip", "del_slot", "delete_message", "compare", "respond" >>

Program(op) ==
  IF op = "admin_panel_request" THEN AdminPanelProgram ELSE PinEntryProgram

\* everything the admin gate leaves alone
gateFrame == << admin_settings, ADMIN_PIN, waiting_for_banned_word,
                waiting_for_promotion_channel, waiting_for_help_channel,
                waiting_for_new_pin, waiting_for_admin_message,
                user_pending_downloads, gate_hist, last, schedVars, calc,
                storeVars, workers, msgVars, dlVars, scan, hist >>

\* the handler calls of the gate that have neither returned nor raised
GateRunning == {i \in DOMAIN calls : calls[i].state = "run"}

\* the polling thread matches the message against the filters and hands
\* the handler to a free worker thread
gate_dispatch(u, t) ==
  /\ Len(calls) < MaxGateCalls
  /\ Cardinality(GateRunning) < NumThreads
  /\ Dispatch(u, t) # "universal_message_enforcement"
  /\ calls' = Append(calls,
                [op |-> Dispatch(u, t), user |-> u, text |-> t, pc |-> 1,
                 state |-> "run", entered |-> "", accepted |-> FALSE,
                 err |-> "none", ev |-> << >>])
  /\ UNCHANGED << users, total_users, waiting_for_admin_pin, gateFrame >>

\* the call after its current statement: the next statement, or returned
\* after the last one
Advance(c, ev) ==
  [c EXCEPT !.pc = @ + 1, !.ev = ev,
            !.state = IF c.pc = Len(Program(c.op)) THEN "returned" ELSE "run"]

\* the call after an exception left the handler
Raise(c, e) == [c EXCEPT !.state = "raised", !.err = e]

\* one statement of the handler call i; ok is the outcome of the Bot API
\* request if the statement makes one
gate_step(i, ok) ==
  LET c == calls[i]
      u == c.user
      st == Program(c.op)[c.pc]
  IN
  /\ c.state = "run"
  /\ users' = IF st = "add_user" THEN add_user(users, u) ELSE users
  /\ total_users' = IF st = "add_user"
                    THEN add_user_total(users, u, total_users)
                    ELSE total_users
  /\ waiting_for_admin_pin' =
       CASE st = "begin" -> waiting_for_admin_pin \cup {u}
         [] st = "del_slot" -> waiting_for_admin_pin \ {u}
         [] OTHER -> waiting_for_admin_pin
  /\ calls' = [calls EXCEPT ![i] =
       CASE st = "add_user" -> Advance(c, c.ev)
         [] st = "delete_message" ->
              Advance(c, Append(c.ev, IF ok THEN "delete_ok"
                                      ELSE "delete_failed"))
         [] st = "begin" -> Advance(c, Append(c.ev, "begin"))
         [] st = "send_message" ->
              IF ok THEN Advance(c, Append(c.ev, "prompt"))
              ELSE Raise(c, "transport")
         [] st = "schedule_deletion" -> Advance(c, c.ev)
         [] st = "check" ->
              IF u \in waiting_for_admin_pin THEN Advance(c, c.ev)
              ELSE [c EXCEPT !.state = "returned"]
         [] st = "strip" -> [Advance(c, c.ev) EXCEPT !.entered = Strip(c.text)]
         [] st = "del_slot" ->
              IF u \in waiting_for_admin_pin THEN Advance(c, c.ev)
              ELSE Raise(c, "KeyError")
         [] st = "compare" ->
              [Advance(c, Append(c.ev, "compare")) EXCEPT
                 !.accepted = PinAccepted(c.entered)]
         [] OTHER ->
              IF ~ok THEN Raise(c, "transport")
              ELSE Advance(c, Append(c.ev, IF c.accepted THEN "dashboard"
                                           ELSE "error")) ]
  /\ UNCHANGED gateFrame

\* texts sent to the admin gate: the trigger phrase, the PIN, a wrong PIN
NextGate ==
  \/ \E u \in Users, t \in {"I AM BOSS", "872398", " 123456"} :
       gate_dispatch(u, t)
  \/ \E i \in DOMAIN calls, ok \in BOOLEAN : gate_step(i, ok)

SpecGate == Init /\ [][NextGate]_vars

\* ------------------------------------------------ calculate_removal_time
\* calculate_removal_time with >= 100 MB replaced by > 100 MB
calculate_removal_time_gt(file_size_bytes, base_time_minutes, rnd) ==
  IF file_size_bytes <= 0 THEN 15
  ELSE IF file_size_bytes > 100 * 1024 * 1024 THEN 30
  ELSE rnd

\* calculate_removal_time; file_size_bytes / (1024 * 1024) >= 100 is exact
\* for these integers, so it is compared in bytes; rnd is the draw of
\* random.randint(15, 20); base_time_minutes is not used by the code
calculate_removal_time(file_size_bytes, base_time_minutes, rnd) ==
  IF file_size_bytes <= 0 THEN 15
  ELSE IF file_size_bytes >= 100 * 1024 * 1024 THEN 30
  ELSE rnd

\* schedule_file_removal reads base_removal_time_minutes and calls
\* calculate_removal_time for the size of the downloaded file
calculate(size, base, rnd) ==
  /\ calc' = [size |-> size, base |-> base,
              minutes |-> calculate_removal_time(size, base, rnd),
              called |-> TRUE]
  /\ UNCHANGED << chatVars, schedVars, storeVars, workers, calls, msgVars, dlVars, scan, hist >>

NextCalc ==
  \E size \in FileSizes, base \in BaseTimeOptions, rnd \in RandomMinutes :
    calculate(size, base, rnd)

SpecCalc == Init /\ [][NextCalc]_vars

\* ------------------------------------------------- check_banned_words
\* characters of the texts and of the banned words in SpecWords
Chars == {"a", "A", "b"}

\* str.lower() on one character
Lower(c) == IF c = "A" THEN "a" ELSE c

\* word in text: the first position from i on where the word starts
RECURSIVE Find(_, _, _)
Find(text, word, i) ==
  IF i + Len(word) - 1 > Len(text) THEN FALSE
  ELSE IF SubSeq(text, i, i + Len(word) - 1) = word THEN TRUE
  ELSE Find(text, word, i + 1)

\* check_banned_words that compares the words as they are written
check_banned_words_text_cased(text, words, enabled) ==
  IF text = << >> \/ ~enabled THEN << >>
  ELSE SelectSeq(words, LAMBDA w : Find(text, w, 1))

\* check_banned_words on a text and a banned_words list given character by
\* character: an empty text and a disabled check give [], else the words
\* whose lower() is in text.lower() are appended in list order
check_banned_words_text(text, words, enabled) ==
  IF text = << >> \/ ~enabled THEN << >>
  ELSE LET text_lower == [i \in DOMAIN text |-> Lower(text[i])]
       IN SelectSeq(words,
            LAMBDA w : Find(text_lower, [i \in DOMAIN w |-> Lower(w[i])], 1))

\* the one call of check_banned_words made in SpecWords
NextWords ==
  /\ ~scan.called
  /\ \E text \in UNION {[1..n -> Chars] : n \in 0..MaxTextLen} :
       \E words \in UNION {[1..n -> UNION {[1..m -> Chars] : m \in 1..2}] :
                             n \in 0..MaxWords} :
         \E enabled \in BOOLEAN :
           scan' = [text |-> text, words |-> words, enabled |-> enabled,
                    found |-> check_banned_words_text(text, words, enabled),
                    called |-> TRUE]
  /\ UNCHANGED << chatVars, schedVars, calc, storeVars, workers, calls,
                  msgVars, dlVars, hist >>

SpecWords == Init /\ [][NextWords]_vars

\* ------------------------------------------- UserDataManager persistence
\* setting keys and the values written to them in the model
SettingKeys ==
  {"channel_join_required", "channel_join_after_links",
   "base_removal_time_minutes"}

SettingValues(k) ==
  CASE k = "channel_join_required" -> BOOLEAN
    [] k = "channel_join_after_links" -> ThresholdOptions
    [] k = "base_removal_time_minutes" -> {15, 30}

\* self.user_data
MemDoc ==
  [users |-> users, total_users |-> total_users,
   admin_settings |-> admin_settings]

\* a file holding the whole of a document
WholeFile(doc) == [exists |-> TRUE, complete |-> TRUE, doc |-> doc]

\* load_data: the document of a readable file, else the default document
load_data(c) == IF c.exists /\ c.complete THEN c.doc ELSE DefaultDocument

\* update_admin_setting that starts from a fresh dict every time
admin_settings_put_reset(s, k, v) ==
  [q \in {"message_deletion_time", "auto_delete_enabled", k} |->
     IF q = k THEN v ELSE IF q = "message_deletion_time" THEN 300 ELSE TRUE]

\* self.user_data["admin_settings"][setting_key] = setting_value
admin_settings_put(s, k, v) ==
  [q \in DOMAIN s \cup {k} |-> IF q = k THEN v ELSE s[q]]

\* get_admin_setting
get_admin_setting(s, k, default_value) ==
  IF k \in DOMAIN s THEN s[k] ELSE default_value

\* the observation a mutation starts from
MutationLog(op, k, v, got, new) ==
  [op |-> op, key |-> k, value |-> v, got |-> got,
   before |-> admin_settings, disk_before |-> fs[DataFile],
   snap |-> new, result |-> "none"]

\* update_admin_setting up to the call of save_data, and the
\* get_admin_setting of the same key that follows it
update_admin_setting(k, v) ==
  /\ saver = "idle"
  /\ LET new == admin_settings_put(admin_settings, k, v)
     IN /\ admin_settings' = new
        /\ store_log' =
             MutationLog("update", k, v, get_admin_setting(new, k, Unset),
                         [MemDoc EXCEPT !.admin_settings = new])
  /\ saver' = "open"
  /\ UNCHANGED << users, total_users, ADMIN_PIN, user_pending_downloads,
                  gate_hist, last, fs, calc, workers, calls, msgVars, dlVars, scan, hist >>
  /\ UNCHANGED << flowVars, schedVars >>

\* add_user up to the call of save_data
data_add_user(u) ==
  /\ saver = "idle"
  /\ LET new == [MemDoc EXCEPT !.users = add_user(users, u),
                   !.total_users = add_user_total(users, u, total_users)]
     IN /\ users' = new.users
        /\ total_users' = new.total_users
        /\ store_log' = MutationLog("add_user", "", u, 0, new)
  /\ saver' = "open"
  /\ UNCHANGED << admin_settings, ADMIN_PIN, user_pending_downloads,
                  gate_hist, last, fs, calc, workers, calls, msgVars, dlVars, scan, hist >>
  /\ UNCHANGED << flowVars, schedVars >>

\* a step of save_data that touches the files only
SaveStep(pc, f, result) ==
  /\ saver' = pc
  /\ fs' = f
  /\ store_log' = [store_log EXCEPT !.result = result]
  /\ UNCHANGED << chatVars, schedVars, calc, workers, calls, msgVars, dlVars, scan, hist >>

\* save_data: open(temp_file, 'w') creates or truncates the file
save_open(ok) ==
  /\ saver = "open"
  /\ IF ok
     THEN SaveStep("dump",
            [fs EXCEPT ![TempFile] =
               [exists |-> TRUE, complete |-> FALSE, doc |-> MemDoc]],
            "none")
     ELSE SaveStep("except", fs, "none")

\* save_data: json.dump writes the document and the file is closed
save_dump(ok) ==
  /\ saver = "dump"
  /\ IF ok
     THEN SaveStep("rename", [fs EXCEPT ![TempFile].complete = TRUE], "none")
     ELSE SaveStep("except", fs, "none")

\* save_data: os.rename(temp_file, self.data_file)
save_rename(ok) ==
  /\ saver = "rename"
  /\ IF ok
     THEN SaveStep("idle",
            [f \in DOMAIN fs |-> IF f = DataFile THEN fs[TempFile]
                                 ELSE NoFile],
            "ok")
     ELSE SaveStep("except", fs, "none")

\* the except clause of save_data removing the data file as well
save_cleanup_wipe(f, rmOk) ==
  [q \in DOMAIN f |-> IF rmOk THEN NoFile ELSE f[q]]

\* the except clause of save_data: the temporary file is removed if it
\* exists; a failure of os.remove is passed over
save_cleanup(f, rmOk) ==
  IF f[TempFile].exists /\ rmOk THEN [f EXCEPT ![TempFile] = NoFile] ELSE f

\* save_data: the except clause, after which save_data returns
save_except(rmOk) ==
  /\ saver = "except"
  /\ SaveStep("idle", save_cleanup(fs, rmOk), "failed")

\* the process is killed and started again: __init__ runs load_data
crash ==
  /\ LET doc == load_data(fs[DataFile])
     IN /\ users' = doc.users
        /\ total_users' = doc.total_users
        /\ admin_settings' = doc.admin_settings
  /\ saver' = "idle"
  /\ store_log' = [store_log EXCEPT !.op = "crash"]
  /\ UNCHANGED << ADMIN_PIN, user_pending_downloads, gate_hist, last, fs,
                  calc, workers, calls, msgVars, dlVars, scan, hist >>
  /\ UNCHANGED << flowVars, schedVars >>

NextStore ==
  \/ \E k \in SettingKeys : \E v \in SettingValues(k) :
       update_admin_setting(k, v)
  \/ \E u \in Users : data_add_user(u)
  \/ \E ok \in BOOLEAN : save_open(ok)
  \/ \E ok \in BOOLEAN : save_dump(ok)
  \/ \E ok \in BOOLEAN : save_rename(ok)
  \/ \E rmOk \in BOOLEAN : save_except(rmOk)
  \/ crash

SpecStore == Init /\ [][NextStore]_vars

\* one step of a download thread, the canceller or a timer thread
NextSched ==
  \/ toggle_auto_removal
  \/ \E p \in Paths : schedule_insert(p)
  \/ \E c \in 1..Len(threads) : schedule_start(c)
  \/ \E c \in 1..Len(threads) : schedule_register(c)
  \/ \E p \in Paths : cancel_file_removal(p)
  \/ \E k \in 1..Len(timers) : timer_fire(k)
  \/ \E p \in Paths : cleanup_file(p)
  \/ \E c \in 1..Len(threads) : cleanup_unlink(c)
  \/ \E op \in {"clean_all_files", "confirm_remove_all_downloads"} :
       clean_all_files(op)
  \/ \E k \in 1..Len(timers) : remove_file_exists(k)
  \/ \E k \in 1..Len(timers) : remove_file_unlink(k)
  \/ \E k \in 1..Len(timers) : remove_file_forget(k)

SpecSched == Init /\ [][NextSched]_vars

\* both schedulers without the manual deletes
NextExpiry ==
  \/ \E dt \in {0, 300} : update_deletion_time_setting(dt)
  \/ schedule_message_deletion
  \/ \E c \in DOMAIN msg_calls : msg_timer_start(c)
  \/ \E k \in DOMAIN msg_timers :
       \/ msg_timer_fire(k)
       \/ delete_message_forget(k)
       \/ \E ok \in BOOLEAN : delete_message_call(k, ok)
  \/ toggle_auto_removal
  \/ \E p \in Paths : Len(threads) < MaxExpiryCalls /\ schedule_insert(p)
  \/ \E c \in DOMAIN threads : schedule_start(c) \/ schedule_register(c)
  \/ \E k \in DOMAIN timers :
       \/ timer_fire(k)
       \/ remove_file_exists(k)
       \/ remove_file_unlink(k)
       \/ remove_file_forget(k)

SpecExpiry == Init /\ [][NextExpiry]_vars

\* the file scheduler with the manual deletes, for a bounded number of
\* schedule_file_removal calls and a cleanup_file call
NextFire ==
  \/ \E p \in Paths : Len(threads) < MaxFireCalls /\ schedule_insert(p)
  \/ \E c \in DOMAIN threads : schedule_start(c) \/ schedule_register(c)
  \/ \E p \in Paths : Len(threads) <= MaxFireCalls /\ cleanup_file(p)
  \/ \E c \in DOMAIN threads : cleanup_unlink(c)
  \/ \E op \in {"clean_all_files", "confirm_remove_all_downloads"} :
       clean_all_files(op)
  \/ \E k \in DOMAIN timers :
       \/ timer_fire(k)
       \/ remove_file_exists(k)
       \/ remove_file_unlink(k)
       \/ remove_file_forget(k)

SpecFire == Init /\ [][NextFire]_vars

\* SpecFire with an os.remove that can fail, where a started Timer thread,
\* a handler inside schedule_file_removal and a handler inside cleanup_file
\* run on: threading.Timer calls remove_file once the delay has elapsed, and
\* no step of these waits for anything but the lock, which is always
\* released
SpecFireFair ==
  /\ Init
  /\ [][NextFire \/ \E k \in DOMAIN timers : remove_file_unlink_error(k)]_vars
  /\ WF_vars(\E c \in DOMAIN threads :
               schedule_start(c) \/ schedule_register(c) \/ cleanup_unlink(c))
  /\ WF_vars(\E k \in DOMAIN timers :
               \/ timer_fire(k)
               \/ remove_file_exists(k)
               \/ remove_file_unlink(k)
               \/ remove_file_unlink_error(k)
               \/ remove_file_forget(k))

\* ------------------------------------------------ handle_video_download
\* download_video that reports success whatever extract_info did
download_video_success_always(fetch) == TRUE

\* download_video: success is reported only when extract_info returned and
\* the file is found in the downloads directory; an exception of
\* extract_info and a missing file both give success False
download_video_success(fetch) == fetch = "ok"

\* the transport calls of a stretch of the handler up to the first one that
\* raises: texts is what the stretch would hand over, failAt the position
\* of the call that raises (none when it is 0 or beyond the stretch)
Transport(texts, failAt) ==
  [i \in 1..(IF failAt \in 1..Len(texts) THEN failAt ELSE Len(texts)) |->
     [text |-> texts[i], ok |-> (i # failAt)]]

\* log_download: the entry and the counter of the user if the record
\* exists, and the counter of bot_stats in any case
log_download(dl, u, url) ==
  [downloads |-> IF u \in DOMAIN users
                 THEN [dl.downloads EXCEPT ![u] = Append(@, url)]
                 ELSE dl.downloads,
   user_total |-> IF u \in DOMAIN users
                  THEN [dl.user_total EXCEPT ![u] = @ + 1]
                  ELSE dl.user_total,
   total_downloads |-> dl.total_downloads + 1]

\* handle_video_download from the processing message to the return of
\* extract_info: the send outside the try, the edits, get_video_info
\* (probeOk), and download_video up to its schedule_file_removal call;
\* the call ends here unless the file was fetched
handle_video_download(u, url, probeOk, fetch, failAt, exceptOk) ==
  LET body == IF ~probeOk THEN << "getting_info", "no_info" >>
              ELSE IF ~download_video_success(fetch)
              THEN << "getting_info", "info", "downloading", "failed" >>
              ELSE << "getting_info", "info", "downloading" >>
      plan == << "processing" >> \o body
      f == IF failAt \in 1..Len(plan) THEN failAt ELSE 0
      probed == f = 0 \/ f > 2
      fetched == probeOk /\ (f = 0 \/ f > 4)
      tried == Transport(plan, f)
  IN
  /\ dl_call.pc \in {"idle", "done"}
  /\ dl_call.n < MaxDownloads
  /\ dl_call' =
       [n |-> dl_call.n + 1,
        pc |-> IF f = 0 /\ probeOk /\ download_video_success(fetch)
               THEN "fetched" ELSE "done",
        user |-> u, url |-> url,
        probe |-> IF ~probed THEN "none"
                  ELSE IF probeOk THEN "ok" ELSE "fails",
        fetch |-> IF fetched THEN fetch ELSE "none",
        sent |-> IF f > 1 THEN tried \o << [text |-> "error", ok |-> exceptOk] >> ELSE tried,
        raised |-> (f = 1 \/ (f > 1 /\ ~exceptOk)),
        base |-> Len(threads)]
  /\ UNCHANGED << download_log, schedVars, chatVars, calc, storeVars, workers, calls, msgVars, scan, hist >>

\* handle_video_download after download_video returned: a KeyError of
\* schedule_file_removal makes download_video report success False; else
\* the "uploading" edit, open(file_path) and send_video, log_download and
\* the "complete" edit
handle_video_download_upload(failAt, exceptOk) ==
  LET c == dl_call.base + 1
      success == threads[c].pc # "raised"
      present == threads[c].path \in files
      plan == IF ~success THEN << "failed" >>
              ELSE IF ~present THEN << "uploading" >>
              ELSE << "uploading", "video", "complete" >>
      f == IF failAt \in 1..Len(plan) THEN failAt ELSE 0
      thrown == f # 0 \/ (success /\ ~present)
      tried == Transport(plan, f)
  IN
  /\ dl_call.pc = "fetched"
  /\ Len(threads) > dl_call.base
  /\ threads[c].pc \in {"returned", "raised", "disabled"}
  /\ dl_call' =
       [dl_call EXCEPT
          !.pc = "done",
          !.sent = @ \o (IF thrown THEN tried \o << [text |-> "error", ok |-> exceptOk] >>
                         ELSE tried),
          !.raised = thrown /\ ~exceptOk]
  /\ download_log' =
       IF success /\ present /\ (f = 0 \/ f = 3)
       THEN log_download(download_log, dl_call.user, dl_call.url)
       ELSE download_log
  /\ UNCHANGED << schedVars, chatVars, calc, storeVars, workers, calls, msgVars, scan, hist >>

\* a user writes a plain text, which registers the user, and asks for a
\* bounded number of downloads while the removal timers run
NextDownload ==
  \/ \E u \in Users, delOk \in BOOLEAN :
       \E sendOk \in WarningOutcomes("hello") :
         universal_message_enforcement(u, "hello", delOk, sendOk)
  \/ \E u \in Users, url \in {"https://youtu.be/a"}, probeOk \in BOOLEAN :
       \E fetch \in {"ok", "raises", "nofile"}, failAt \in 0..5 :
         \E exceptOk \in BOOLEAN :
           handle_video_download(u, url, probeOk, fetch, failAt, exceptOk)
  \/ /\ dl_call.pc = "fetched"
     /\ Len(threads) = dl_call.base
     /\ \E p \in Paths : schedule_insert(p)
  \/ \E c \in DOMAIN threads : schedule_start(c) \/ schedule_register(c)
  \/ \E failAt \in 0..3, exceptOk \in BOOLEAN :
       handle_video_download_upload(failAt, exceptOk)
  \/ \E k \in DOMAIN timers :
       \/ timer_fire(k)
       \/ remove_file_exists(k)
       \/ remove_file_unlink(k)
       \/ remove_file_forget(k)

SpecDownload == Init /\ [][NextDownload]_vars

\* ------------------------------------------------------------ properties
\* C1: every user is in at most one of the six pending-input maps
C1_SingleSlot ==
  \A u \in Users : Cardinality(PendingFlows(u)) <= 1

\* C2: a message with an enabled banned word is deleted and is neither
\* counted as a link, fetched, gated, consumed by a pending flow nor taken
\* as the trigger phrase
C2_ModerationPrecedence ==
  last.violation =>
    /\ last.deleted
    /\ last.infos = << >>
    /\ last.fetched = << >>
    /\ last.prompted = ""
    /\ last.consumed = "none"
    /\ last.started = "none"

\* C3: after a non-violating message with k extracted URLs from an existing,
\* non-banned user, link_count is the prior count plus k
C3_LinkCountPlusK ==
  ( /\ last.op = "universal_message_enforcement"
    /\ last.existed /\ ~last.was_banned /\ ~last.violation )
  => users[last.user].link_count = last.count_before + Len(last.urls)

\* C4: log_link answers needs_channel_join exactly when the requirement is
\* on, the incremented count has reached the threshold and the user has not
\* joined
C4_NeedsIff ==
  last.op = "universal_message_enforcement" =>
    \A i \in 1..Len(last.infos) :
      last.infos[i].needs_channel_join <=>
        ( /\ admin_settings.channel_join_required
          /\ last.infos[i].link_count >= admin_settings.channel_join_after_links
          /\ ~users[last.user].channel_joined )

\* C4 witness: a link was logged and answered with needs_channel_join
C4_Witness ==
  /\ last.op = "universal_message_enforcement"
  /\ \E i \in 1..Len(last.infos) : last.infos[i].needs_channel_join
  /\ \E i \in 1..Len(last.infos) : ~last.infos[i].needs_channel_join

\* C5 as claimed: a link is answered with needs_channel_join only once the
\* count has reached the threshold, and once a link of the user was answered
\* so, every later link is, until channel_joined is set
C5_StaysGated ==
  last.op = "universal_message_enforcement" =>
    /\ \A i \in 1..Len(last.infos) :
         last.infos[i].needs_channel_join =>
           last.infos[i].link_count >= admin_settings.channel_join_after_links
    /\ ( /\ last.gate_before > 0
         /\ last.infos # << >>
         /\ ~users[last.user].channel_joined )
       => \A i \in 1..Len(last.infos) : last.infos[i].needs_channel_join

\* C5 amended: a link is answered with needs_channel_join only once the
\* count has reached the threshold, and the later links are answered so as
\* long as the requirement is on, the threshold is not above the one the
\* user was gated at and the account was not deleted, until channel_joined
\* is set
C5_StaysGatedWhileConfigured ==
  last.op = "universal_message_enforcement" =>
    /\ \A i \in 1..Len(last.infos) :
         last.infos[i].needs_channel_join =>
           last.infos[i].link_count >= admin_settings.channel_join_after_links
    /\ ( /\ last.gate_before > 0
         /\ last.infos # << >>
         /\ admin_settings.channel_join_required
         /\ admin_settings.channel_join_after_links <= last.gate_before
         /\ ~users[last.user].channel_joined )
       => \A i \in 1..Len(last.infos) : last.infos[i].needs_channel_join

\* C5 witness: a user gated earlier sends another link and is gated again
C5_Witness ==
  /\ last.op = "universal_message_enforcement"
  /\ last.gate_before > 0
  /\ last.infos # << >>
  /\ last.infos[1].link_count > admin_settings.channel_join_after_links
  /\ last.infos[1].needs_channel_join

\* C6: with the requirement on and the user not joined, a message with one
\* media URL starts a fetch while the count is below the threshold, and at
\* the threshold it stores the URL, prompts and starts no fetch
C6_ThresholdGate ==
  ( /\ last.op = "universal_message_enforcement"
    /\ ~last.was_banned /\ ~last.violation
    /\ Len(last.urls) = 1 /\ is_video_url(last.urls[1])
    /\ admin_settings.channel_join_required
    /\ ~users[last.user].channel_joined )
  => LET c == users[last.user].link_count
         T == admin_settings.channel_join_after_links
     IN /\ c = last.count_before + 1
        /\ c < T => last.fetched = << last.urls[1] >> /\ last.prompted = ""
        /\ c = T => /\ last.prompted = last.urls[1]
                    /\ last.user \in DOMAIN user_pending_downloads
                    /\ user_pending_downloads[last.user] = last.urls[1]
                    /\ last.fetched = << >>

\* C6 witness: the second link of a user under threshold 2 was gated
C6_Witness ==
  /\ last.op = "universal_message_enforcement"
  /\ ~last.violation
  /\ Len(last.urls) = 1
  /\ admin_settings.channel_join_after_links = 2
  /\ last.count_before = 1
  /\ last.prompted = last.urls[1]
  /\ last.fetched = << >>

\* C7: a successful verification with a stored URL replays that URL once
\* and clears the slot
C7_ReplayOnce ==
  ( /\ last.op = "verify_channel_join"
    /\ last.verified
    /\ last.prompted # "" )
  => /\ last.fetched = << last.prompted >>
     /\ last.user \notin DOMAIN user_pending_downloads

\* C8: a removal whose schedule_file_removal had returned and whose delay
\* had not elapsed when cancel_file_removal of its path returned True never
\* removes the artifact, and right after the cancel the path has no entry
C8_CancelledNeverRemoves ==
  /\ \A k \in 1..Len(timers) :
       timers[k].call \in sched_log.settled => ~timers[k].removed
  /\ sched_log.op \in {"cancel", "cleanup_cancel"} =>
       sched_log.path \notin DOMAIN scheduled_removals

\* C9: after cancel_file_removal returned True for a path, no removal action
\* scheduled for that path before the cancel executes
C9_NoRunAfterCancel ==
  sched_log.late = {}

\* C10: a firing action has taken its key out of the table before it
\* removes the file, and a cancel that arrives after the fire returns False
C10_KeyRemovedBeforeEffect ==
  /\ \A k \in 1..Len(timers) :
       timers[k].st \in {"unlinking", "unlinked"} =>
         ~( /\ timers[k].path \in DOMAIN scheduled_removals
            /\ scheduled_removals[timers[k].path].timer = k )
  /\ sched_log.op = "cancel" /\ sched_log.fired => ~sched_log.result

\* C11: calculate_removal_time gives 30 minutes for every size of at least
\* 100 MB, 15 to 20 minutes for every smaller size, non-positive sizes
\* included, and nothing else
C11_RemovalMinutes ==
  calc.called =>
    /\ calc.size >= 100 * 1024 * 1024 => calc.minutes = 30
    /\ calc.size < 100 * 1024 * 1024 => calc.minutes \in 15..20
    /\ calc.minutes \in (15..20) \cup {30}

\* C11 witness: the size of exactly 100 MB was given 30 minutes under the
\* default base time
C11_Witness ==
  /\ calc.called
  /\ calc.size = 100 * 1024 * 1024
  /\ calc.base = 30
  /\ calc.minutes = 30

\* C12: DATA_FILE always holds a whole document, either the one it held when
\* the current save_data began or the one that save_data writes, and after
\* a crash load_data reads one of these two
C12_AtomicReplace ==
  /\ fs[DataFile].exists => fs[DataFile].complete
  /\ fs[DataFile] \in {store_log.disk_before, WholeFile(store_log.snap)}
  /\ store_log.op = "crash" =>
       MemDoc \in {load_data(store_log.disk_before), store_log.snap}

\* C12 witness: a crash between the write of the temporary file and the
\* rename, with the prior document still in DATA_FILE
C12_Witness ==
  /\ store_log.op = "crash"
  /\ fs[TempFile].exists /\ fs[TempFile].complete
  /\ fs[DataFile].exists
  /\ fs[DataFile] = store_log.disk_before
  /\ fs[DataFile].doc # store_log.snap
  /\ MemDoc = fs[DataFile].doc

\* C14: after a save_data that failed, the mutation is in the in-memory
\* document, the operation has returned and DATA_FILE is what it was
C14_FailedSaveKeepsMutation ==
  ( /\ store_log.result = "failed"
    /\ store_log.op \in {"update", "add_user"} )
  => /\ saver = "idle"
     /\ MemDoc = store_log.snap
     /\ store_log.op = "update" =>
          get_admin_setting(admin_settings, store_log.key, Unset)
            = store_log.value
     /\ fs[DataFile] = store_log.disk_before

\* C14 witness: the write of a changed setting failed over a data file that
\* holds the old value
C14_Witness ==
  /\ store_log.result = "failed"
  /\ store_log.op = "update"
  /\ store_log.key = "channel_join_required"
  /\ fs[DataFile].exists
  /\ fs[DataFile].doc.admin_settings.channel_join_required # store_log.value
  /\ admin_settings.channel_join_required = store_log.value

\* C15: update_admin_setting(k, v) followed by get_admin_setting(k) gives v,
\* and every other key has the value it had
C15_SettingRoundTrip ==
  store_log.op = "update" =>
    /\ store_log.got = store_log.value
    /\ \A q \in DOMAIN store_log.before \ {store_log.key} :
         /\ q \in DOMAIN admin_settings
         /\ admin_settings[q] = store_log.before[q]

\* C15 witness: a key that was absent was written and read back
C15_Witness ==
  /\ store_log.op = "update"
  /\ store_log.key \notin DOMAIN store_log.before
  /\ store_log.got = 15

\* C17: the handler of a pending flow removes the user's entry for that flow
\* whatever the input, and an entry appears only by the begin of its flow
C17_InputEndsFlow ==
  [][ \A u \in Users, f \in Flows :
        /\ (last'.user = u /\ last'.consumed = f) =>
             /\ u \in FlowMap(f)
             /\ u \notin FlowMap(f)'
        /\ (u \notin FlowMap(f) /\ u \in FlowMap(f)') => last'.started = f
    ]_vars

\* C17 witness: a new-PIN input that failed validation has ended the flow
C17_Witness ==
  /\ last.consumed = "new_pin"
  /\ last.user \notin waiting_for_new_pin
  /\ admin_settings.admin_pin = Unset

\* C18: the stored PIN changes only by a 6-digit input, a channel reference
\* only by an input starting with https://t.me/ or @, the banned words grow
\* only by a non-empty word not yet present, and an input that fails its
\* validation leaves the admin settings as they were
C18_ValidationGuards ==
  [][ /\ ( /\ last'.op = "universal_message_enforcement"
           /\ last'.consumed \notin Flows \ {"admin_pin"} )
         => admin_settings' = admin_settings /\ ADMIN_PIN' = ADMIN_PIN
      /\ \A u \in Users, t \in AdminTexts, delOk \in BOOLEAN,
            sendOk \in BOOLEAN :
        ( /\ last'.consumed \in Flows \ {"admin_pin"}
          /\ universal_message_enforcement(u, t, delOk, sendOk) ) =>
          LET old == admin_settings
              new == admin_settings'
              f == last'.consumed
          IN
          /\ (new.admin_pin # old.admin_pin \/ ADMIN_PIN' # ADMIN_PIN) =>
               f = "new_pin" /\ IsSixDigits(Strip(t))
                 /\ new.admin_pin = Strip(t)
          /\ new.promotion_channel # old.promotion_channel =>
               f = "promotion_channel" /\ HasChannelMarker(Strip(t))
                 /\ new.promotion_channel = Strip(t)
          /\ new.help_channel # old.help_channel =>
               f = "help_channel" /\ HasChannelMarker(Strip(t))
                 /\ new.help_channel = Strip(t)
          /\ new.banned_words # old.banned_words =>
               /\ f = "banned_word"
               /\ LowerStrip(t) # ""
               /\ \A i \in 1..Len(old.banned_words) :
                    old.banned_words[i] # LowerStrip(t)
               /\ new.banned_words = Append(old.banned_words, LowerStrip(t))
          /\ ( \/ f = "new_pin" /\ ~IsSixDigits(Strip(t))
               \/ f \in {"promotion_channel", "help_channel"}
                    /\ ~HasChannelMarker(Strip(t))
               \/ f = "banned_word"
                    /\ \E i \in 1..Len(old.banned_words) :
                         old.banned_words[i] = LowerStrip(t) )
             => new = old /\ ADMIN_PIN' = ADMIN_PIN
    ]_vars

\* C18 witness: a valid PIN and a valid channel reference were stored
C18_Witness ==
  /\ admin_settings.admin_pin = OtherPin
  /\ admin_settings.promotion_channel = "@pub"
  /\ admin_settings.banned_words = << "boss" >>
  /\ last.consumed = "help_channel"
  /\ admin_settings.help_channel = DefaultHelpChannel

\* C19: for a user awaiting the admin PIN the dashboard is rendered exactly
\* when the trimmed input is the environment-default PIN or the stored
\* admin_pin, and the user is no longer awaiting the PIN
C19_PinChallenge ==
  [][ \A u \in Users, t \in AdminTexts :
        handle_admin_pin_entry(u, t) =>
          /\ last'.dashboard <=>
               ( \/ Strip(t) = EnvAdminPin
                 \/ Strip(t) = admin_settings.admin_pin )
          /\ u \notin waiting_for_admin_pin'
    ]_vars

\* C13: once every handler has returned, the link counter of a user equals
\* the number of log_link calls made for that user, and total_users equals
\* the number of user records (no update is lost, one record and one count
\* per first contact)
C13_NoLostUpdate ==
  (workers # << >> /\ Running = {}) =>
    /\ total_users = Cardinality(DOMAIN users)
    /\ \A u \in Users :
         LET n == Cardinality({i \in DOMAIN workers :
                                 /\ workers[i].op = "link_message"
                                 /\ workers[i].user = u})
         IN IF u \in DOMAIN users THEN users[u].link_count = n ELSE n = 0

\* C16: of the text inputs handled while the PIN flow is pending no more
\* compare their text than flows were begun, and no handler fails with an
\* error on the slot it clears
C16_ConsumeOnce ==
  LET Did(e) == {i \in DOMAIN calls :
                   \E k \in DOMAIN calls[i].ev : calls[i].ev[k] = e}
  IN
  /\ \A i \in DOMAIN calls : calls[i].err # "KeyError"
  /\ Cardinality(Did("compare")) <= Cardinality(Did("begin"))

\* C20: in every call of admin_panel_request the delete of the trigger is
\* attempted before the flow is begun, and in every call of
\* handle_admin_pin_entry the delete of the input is attempted before the
\* comparison and before the dashboard or the error message, whether the
\* delete succeeded or failed
C20_DeleteFirst ==
  \A i \in DOMAIN calls :
    LET ev == calls[i].ev IN
    \A k \in DOMAIN ev :
      ev[k] \in {"begin", "compare", "dashboard", "error"} =>
        \E d \in 1..(k - 1) : ev[d] \in {"delete_ok", "delete_failed"}

\* C20 witness: a trigger whose delete failed has begun the flow, and a PIN
\* entry whose delete failed was compared and answered with the error
C20_Witness ==
  /\ \E i \in DOMAIN calls :
       /\ calls[i].op = "admin_panel_request"
       /\ calls[i].ev = << "delete_failed", "begin", "prompt" >>
  /\ \E i \in DOMAIN calls :
       /\ calls[i].op = "handle_admin_pin_entry"
       /\ calls[i].ev = << "delete_failed", "compare", "error" >>

C22_SettingsKeepUsers ==
  [][ \A u \in Users, n \in ThresholdOptions :
        ( /\ last'.op \in {"toggle_channel_join", "set_link_threshold"}
          /\ toggle_channel_join(u) \/ set_link_threshold(u, n) ) =>
          /\ DOMAIN users' = DOMAIN users
          /\ \A v \in DOMAIN users :
               /\ users'[v].channel_joined = users[v].channel_joined
               /\ users'[v].link_count = users[v].link_count
    ]_vars

\* C22 witness: the requirement was switched off while a user who has sent
\* links is marked as joined
C22_Witness ==
  /\ last.op = "toggle_channel_join"
  /\ ~admin_settings.channel_join_required
  /\ \E v \in DOMAIN users :
       users[v].channel_joined /\ users[v].link_count > 0

C24_DisabledSchedulesNothing ==
  [][ /\ (~admin_settings.auto_delete_enabled /\ schedule_message_deletion)
           => UNCHANGED << pending_message_deletions, msg_timers >>
      /\ \A p \in Paths :
           (~admin_settings.auto_removal_enabled /\ schedule_insert(p))
             => UNCHANGED << scheduled_removals, timers >>
      /\ \A c \in DOMAIN msg_calls' :
           msg_calls'[c].pc = "disabled" =>
             /\ msg_calls'[c].key \notin pending_message_deletions'
             /\ msg_calls'[c].key \in chat_messages'
             /\ \A k \in DOMAIN msg_timers' :
                  msg_timers'[k].key # msg_calls'[c].key
      /\ \A c \in DOMAIN threads' :
           threads'[c].pc = "disabled" =>
             /\ \A k \in DOMAIN timers' : timers'[k].call # c
             /\ (\A d \in DOMAIN threads' :
                   threads'[d].path = threads'[c].path =>
                     threads'[d].pc = "disabled")
                  => threads'[c].path \in files'
    ]_vars

\* C24 witness: the message of a call made while auto-delete was disabled
\* is in the chat with auto-delete enabled again, and the file of a call
\* made while auto-removal was disabled is there with auto-removal enabled
\* again
C24_Witness ==
  /\ \E c \in DOMAIN msg_calls :
       msg_calls[c].pc = "disabled" /\ msg_calls[c].key \in chat_messages
  /\ \E c \in DOMAIN threads :
       threads[c].pc = "disabled" /\ threads[c].path \in files
  /\ admin_settings.auto_delete_enabled
  /\ admin_settings.auto_removal_enabled

\* C25: whenever no schedule_file_removal call for a path is in progress, the
\* path has at most one timer that is waiting to fire, and that timer is the
\* one recorded in the table entry of the path
C25_OneLiveTimer ==
  \A p \in Paths :
    (\A c \in DOMAIN threads :
       threads[c].path = p => threads[c].pc \in {"returned", "raised", "disabled"})
    => /\ Cardinality(WaitingFor({p})) <= 1
       /\ \A k \in WaitingFor({p}) :
            /\ p \in DOMAIN scheduled_removals
            /\ scheduled_removals[p].timer = k

\* C26: a timer that was waiting for a path when its file was deleted by
\* cleanup_file or by one of the two bulk deletes never fires
C26_ManualDeleteCancels ==
  \A k \in sched_log.cleaned : timers[k].st \in {"waiting", "cancelled"}

\* C27: a timer whose remove_file finds no file at the path goes on without
\* raising, removes no file, and ends with the entry of the path deleted from
\* the table
C27_FiringOnRemovedFile ==
  [][\A k \in DOMAIN timers :
       /\ (/\ timers[k].st = "running"
           /\ timers[k].path \notin files
           /\ timers'[k].st # "running")
          => /\ timers'[k].st = "unlinked"
             /\ ~timers'[k].removed
             /\ files' = files
       /\ (/\ timers[k].st = "unlinked"
           /\ ~timers[k].removed
           /\ timers'[k].st # "unlinked")
          => /\ timers'[k].st = "done"
             /\ ~timers'[k].removed
             /\ files' = files
             /\ timers[k].path \notin DOMAIN scheduled_removals']_vars

\* C27 witness: a timer has run to its end without removing a file, after a
\* manual delete took the file of its path
C27_Witness ==
  \E k \in DOMAIN timers :
    /\ timers[k].st = "done"
    /\ ~timers[k].removed
    /\ k \in sched_log.cleaned

\* C28: no thread writes the document while it holds the store lock, and no
\* timer thread calls bot.delete_message while it holds
\* message_deletion_lock
C28_NoBlockingUnderLock ==
  /\ LET SaveHoldsLock == saver \in {"dump", "rename", "except"}
         SaveWrites == saver \in {"dump", "rename"}
     IN ~(SaveHoldsLock /\ SaveWrites)
  /\ \A k \in DOMAIN msg_timers :
       msg_timers[k].st = "delete" => ~msg_timers[k].lock

\* C29: a handle_video_download call whose probe or fetch fails ends at
\* once; a failure text is handed to the transport and is the last text
\* shown when every transport call goes through; the scheduled-removal
\* table, the timers and the schedule_file_removal calls are as before, and
\* so are the download history and the total_downloads counters
C29_FailedDownloadAborts ==
  [][(/\ dl_call'.n = dl_call.n + 1
      /\ \/ dl_call'.probe = "fails"
         \/ dl_call'.fetch \in {"raises", "nofile"})
     => /\ dl_call'.pc = "done"
        /\ \E i \in DOMAIN dl_call'.sent :
             dl_call'.sent[i].text \in {"no_info", "failed", "error"}
        /\ (\A i \in DOMAIN dl_call'.sent : dl_call'.sent[i].ok)
             => dl_call'.sent[Len(dl_call'.sent)].text \in {"no_info", "failed"}
        /\ scheduled_removals' = scheduled_removals
        /\ timers' = timers
        /\ threads' = threads
        /\ download_log' = download_log]_vars

\* C29 witness: a call of a registered user has ended with the fetch failed
\* and the "Download Failed" text shown
C29_Witness ==
  /\ dl_call.pc = "done"
  /\ dl_call.user \in DOMAIN users
  /\ dl_call.fetch = "raises"
  /\ dl_call.sent[Len(dl_call.sent)] = [text |-> "failed", ok |-> TRUE]
  /\ download_log.total_downloads = 0

\* C30: no call of handle_video_download and no call of the admin gate ends
\* with an exception of a transport call leaving the handler, and a message
\* with an enabled banned word is processed no further whatever the delete
\* and the warning send did
C30_TransportSwallowed ==
  /\ ~dl_call.raised
  /\ \A c \in DOMAIN calls :
       ~(calls[c].state = "raised" /\ calls[c].err = "transport")
  /\ (last.op = "universal_message_enforcement" /\ last.violation)
       => /\ last.infos = << >>
          /\ last.fetched = << >>
          /\ last.prompted = ""
          /\ last.consumed = "none"

\* C31: a text without a banned word from a user who is not banned and has
\* a pending flow is consumed by a flow; it leaves link_count as it was and
\* starts no fetch and no verification prompt
C31_FlowBeforeLinks ==
  [][\A u \in Users :
       (/\ last'.op = "universal_message_enforcement"
        /\ last'.user = u
        /\ ~last'.violation
        /\ ~last'.was_banned
        /\ PendingFlows(u) # {})
       => /\ last'.consumed # "none"
          /\ last'.infos = << >>
          /\ last'.fetched = << >>
          /\ last'.prompted = ""
          /\ u \in DOMAIN users => users'[u].link_count = users[u].link_count]_vars

\* C32: the record of a user id never has a link_count below one that a
\* record of that id has had before
C32_LinkCountMonotone ==
  \A u \in Users :
    u \in DOMAIN users => users[u].link_count >= hist.peak[u]

\* C33: check_banned_words returns [] for an empty text and when the check
\* is disabled; else it returns, in list order, the words of the list that
\* match the text at some position when both are compared in lower case
C33_BannedWordsExact ==
  scan.called =>
    LET Occurs(w) ==
          \E i \in 1..Len(scan.text) :
            /\ i + Len(w) - 1 <= Len(scan.text)
            /\ \A k \in 1..Len(w) : Lower(scan.text[i + k - 1]) = Lower(w[k])
    IN scan.found = IF scan.text = << >> \/ ~scan.enabled THEN << >>
                    ELSE SelectSeq(scan.words, Occurs)

\* C33 witness: an upper-case word of the list was found in a lower-case
\* text, after a word that does not occur and before one that was found too
C33_Witness ==
  /\ scan.called /\ scan.enabled
  /\ scan.text = << "b", "a", "b" >>
  /\ scan.words = << << "A", "b" >>, << "b", "b" >> >>
  /\ scan.found = << << "A", "b" >> >>

\* C34: for a size of at least 100 MB the minutes computed are the
\* base_removal_time_minutes handed to calculate_removal_time
C34_LargeFilesUseBaseTime ==
  (calc.called /\ calc.size >= 100 * 1024 * 1024) => calc.minutes = calc.base

\* C35: once a new PIN is stored, a PIN entry that differs from the stored
\* PIN, the earlier PIN included, does not render the dashboard
C35_OldPinDenied ==
  [][\A u \in Users, t \in AdminTexts :
       (/\ last'.op = "handle_admin_pin_entry"
        /\ admin_settings.admin_pin # Unset
        /\ Strip(t) # admin_settings.admin_pin
        /\ handle_admin_pin_entry(u, t))
       => ~last'.dashboard]_vars

\* C36: after the 'Send Message' button was pressed for a target user, the
\* admin who pressed it is awaiting the broadcast text
C36_BroadcastReachable ==
  last.op = "message_user" => last.user \in waiting_for_admin_message

\* C37: total_users equals the number of user records after every call, and
\* a 'delete account' press removes the record of its target only, keeps
\* the other records as they were and lowers the counter by one
C37_TotalUsersCountsRecords ==
  [][/\ total_users' = Cardinality(DOMAIN users')
     /\ \A u \in Users, target \in 1..MaxAccounts :
          (last'.op = "delete_user" /\ remove_user_account(u, target)) =>
            /\ target \in DOMAIN users
            /\ DOMAIN users' = DOMAIN users \ {target}
            /\ \A v \in DOMAIN users' : users'[v] = users[v]
            /\ total_users' = total_users - 1]_vars

\* C37 witness: an account was deleted while two others, one of them
\* banned, stay registered and counted
C37_Witness ==
  /\ last.op = "delete_user"
  /\ Cardinality(DOMAIN users) = 2
  /\ total_users = 2
  /\ \E v \in DOMAIN users : users[v].status = "banned"

\* C38: a step that changes the admin settings, the stored PIN included,
\* or ADMIN_PIN is a step of a user to whom the dashboard was rendered
\* before, after a correct answer to the PIN challenge
C38_MutationsNeedElevation ==
  [][(admin_settings' # admin_settings \/ ADMIN_PIN' # ADMIN_PIN)
       => last'.user \in hist.elevated]_vars

\* C39: a text message, a trigger phrase or a verification press of a user
\* whose status is banned leaves the user's link_count as it was, starts no
\* fetch and begins no flow
C39_BannedUserInert ==
  [][\A u \in Users :
       (/\ u \in DOMAIN users
        /\ users[u].status = "banned"
        /\ last'.user = u
        /\ last'.op \in {"universal_message_enforcement",
                         "admin_panel_request", "handle_admin_pin_entry",
                         "verify_channel_join"})
       => /\ u \in DOMAIN users'
          /\ users'[u].link_count = users[u].link_count
          /\ last'.fetched = << >>
          /\ last'.started = "none"]_vars

\* C40: the calls of schedule_file_removal being finitely many, the
\* scheduled-removal table is empty from some point on: every timer that
\* was not cancelled fires and its path has no entry afterwards, also when
\* os.remove failed
C40_TableEventuallyEmpty ==
  <>[](DOMAIN scheduled_removals = {})

====
